---- MODULE Spec2Model ----
(***************************************************************************)
(* The SMTP session client of the send-to-kindle extension (email.ts):     *)
(* class SmtpClient, its response parser and its single pending-response   *)
(* slot, driven by the callbacks of the socket (data, error) and of the    *)
(* timers.  A server and a network that may answer, stay silent, send      *)
(* continuation lines, unparseable lines or unsolicited responses stand on *)
(* the other side of the socket.                                           *)
(***************************************************************************)
EXTENDS Integers, Sequences, FiniteSets, TLC

VARIABLES
    client,     \* the fields of the SmtpClient object
    timers,     \* the armed setTimeout timers
    callers,    \* the running invocations of the async methods (one coroutine each)
    calls,      \* how many invocations have been made
    sock,       \* the transport behind client.socket: none, open, errored, destroyed
    written,    \* the commands written to the open transport and not yet answered
    wire,       \* the line whose start was delivered and whose rest is still to come
    server,     \* the server: greeting sent, irregularities so far
    log,        \* what the last step did: lines parsed, responses assembled and handed over
    driver,     \* the running sendEpubByEmail / testEmailPreferences, if any
    mail,       \* a message on its way through buildMimeMessage or dotStuff
    zip,        \* a run of buildZip: its entries, chunks and running offset
    form        \* the setup form: what was submitted, what is stored

vars == <<client, timers, callers, calls, sock, written, wire, server, log,
          driver, mail, zip, form>>

\* What the methods and callbacks of an SmtpClient never touch.
elsewhere == <<driver, mail, zip, form>>

(* ------------------------------ bounds --------------------------------- *)

\* Invocations of public methods in one run.
MaxCalls == 2

\* Invocations that may be in progress at the same time.
MaxConcurrent == 2

\* Irregularities of the server and the network in one run: a continuation
\* line, an unparseable line, an unsolicited response, a line cut in two by
\* the network.  One final line per command (and the greeting) is regular.
MaxExtra == 1

(* ------------------------------ values --------------------------------- *)

\* readResponse: this.options.timeoutMs ?? 15000
DefaultTimeoutMs == 15000

CallerIds == 1 .. MaxConcurrent

Methods == {"connect", "sendEhlo", "startTls", "authLogin", "sendMail",
            "verifyRecipient", "quit"}

SmtpSecurity == {"ssl", "starttls", "none"}

\* What a response answers: <<invocation, step>> of the command, or one of
\* these.
Greeting == <<0, 0>>
Unsolicited == <<0, 1>>
NotSent == <<0, 2>>

\* on: the events of the socket the client has handlers for.
NoSocket == [layer |-> "null", on |-> {}]
NoResponse == [code |-> 0, lines |-> <<>>]
NoError == [message |-> "", code |-> 0]
NoTimeout == [id |-> NotSent, delay |-> 0]
NoPending == [owner |-> 0, expected |-> {}, timeout |-> NoTimeout]
EmptyLog == [consumed |-> <<>>, produced |-> <<>>, handed |-> <<>>]

\* No session driver is running; no message and no archive is being built.
NoDriver == [status |-> "none"]
NoMail == [status |-> "none"]
NoZip == [status |-> "none"]
NoForm == [status |-> "none"]

\* The Error objects of email.ts.
Unavailable == [message |-> "SMTP connection unavailable.", code |-> 0]
AlreadyPending == [message |-> "An SMTP response is already pending.", code |-> 0]
TimedOut == [message |-> "SMTP connection timed out.", code |-> 0]
Unexpected(code) == [message |-> "Unexpected SMTP response", code |-> code]
\* The error object a socket 'error' event carries.
TransportFailure == [message |-> "socket error", code |-> 0]

(* ------------------------- the methods' steps -------------------------- *)

Step(kind, cmd, expected) == [kind |-> kind, cmd |-> cmd, expected |-> expected]

\* A variant of connect that takes any greeting (C9 does not hold of it).
connectAnyGreeting == << Step("greeting", "GREETING", {220, 550}) >>

connect == << Step("greeting", "GREETING", {220}) >>

sendEhlo == << Step("command", "EHLO", {250}) >>

\* A variant of startTls that takes any answer to STARTTLS (C12 does not
\* hold of it).
startTlsAnyCode == << Step("command", "STARTTLS", {220, 550}) >>

startTls == << Step("command", "STARTTLS", {220}) >>

\* A variant of authLogin that goes on to the password whatever the answer
\* to the username (C13 does not hold of it).
authLoginAnyAnswer == << Step("command", "AUTH LOGIN", {334}),
                         Step("command", "USERNAME", {334, 550}),
                         Step("command", "PASSWORD", {235}) >>

authLogin == << Step("command", "AUTH LOGIN", {334}),
                Step("command", "USERNAME", {334}),
                Step("command", "PASSWORD", {235}) >>

sendMail == << Step("command", "MAIL FROM", {250}),
               Step("command", "RCPT TO", {250, 251}),
               Step("command", "DATA", {354}),
               Step("data", "BODY", {}),
               Step("command", ".", {250}) >>

\* A variant of verifyRecipient that goes on to DATA as sendMail does (C14
\* does not hold of it).
verifyRecipientWithData == << Step("command", "MAIL FROM", {250}),
                              Step("command", "RCPT TO", {250, 251}),
                              Step("command", "DATA", {354}) >>

verifyRecipient == << Step("command", "MAIL FROM", {250}),
                      Step("command", "RCPT TO", {250, 251}),
                      Step("command", "RSET", {250}) >>

quit == << Step("command", "QUIT", {221, 250}) >>

Steps(method) ==
    CASE method = "connect" -> connect
      [] method = "sendEhlo" -> sendEhlo
      [] method = "startTls" -> startTls
      [] method = "authLogin" -> authLogin
      [] method = "sendMail" -> sendMail
      [] method = "verifyRecipient" -> verifyRecipient
      [] OTHER -> quit

(* ---------------------------- the heap --------------------------------- *)

\* The client-side state as one value, threaded through the handlers;
\* thrown is the exception in flight, if any.
Heap == [client |-> client, timers |-> timers, callers |-> callers,
         sock |-> sock, written |-> written, log |-> EmptyLog, thrown |-> NoError]

SetHeap(h) ==
    /\ client' = h.client
    /\ timers' = h.timers
    /\ callers' = h.callers
    /\ sock' = h.sock
    /\ written' = h.written
    /\ log' = h.log

\* resolve / reject of the promise created in readResponse: the awaiting
\* caller's promise settles; a response taken by it is noted as handed over
\* (log.handed), its code as received by the invocation (got) and what its
\* final line answers (answers).
settle(h, c, outcome, response, error) ==
    [h EXCEPT !.callers[c].settled = outcome,
              !.callers[c].response = response,
              !.callers[c].error = error,
              !.callers[c].got = IF response = NoResponse THEN @
                                 ELSE Append(@, response.code),
              !.callers[c].answers =
                    IF response = NoResponse THEN @
                    ELSE Append(@, response.lines[Len(response.lines)].tag),
              !.log.handed = IF response = NoResponse THEN @
                             ELSE Append(@, [caller |-> c,
                                             awaits |-> h.callers[c].awaits,
                                             response |-> response])]

clearTimeout(h, timeout) == [h EXCEPT !.timers = @ \ {timeout}]

(* --------------------------- the parser -------------------------------- *)

\* A variant of processLine that gives a response the code of its first line
\* (currentResponseCode) instead of its final line's (C4 does not hold of it).
processLineFirstCode(h, line) ==
    LET cl == h.client
        seen == [h EXCEPT !.log.consumed = Append(@, line)]
    IN  IF line.sep \notin {" ", "-"} THEN seen
        ELSE
        LET code == IF cl.currentResponseCode = 0 THEN line.code
                    ELSE cl.currentResponseCode
            lines == Append(cl.currentResponseLines, line)
        IN  IF line.sep = " "
            THEN LET response == [code |-> code, lines |-> lines]
                     h1 == [seen EXCEPT !.client.currentResponseCode = 0,
                                        !.client.currentResponseLines = <<>>,
                                        !.log.produced = Append(@, response)]
                 IN  IF cl.pending # NoPending
                     THEN LET pending == cl.pending
                              h2 == clearTimeout(
                                      [h1 EXCEPT !.client.pending = NoPending],
                                      pending.timeout)
                          IN  IF code \notin pending.expected
                              THEN settle(h2, pending.owner, "rejected",
                                          response, Unexpected(code))
                              ELSE settle(h2, pending.owner, "fulfilled",
                                          response, NoError)
                     ELSE [h1 EXCEPT !.client.queuedResponses = Append(@, response)]
            ELSE [seen EXCEPT !.client.currentResponseCode = code,
                              !.client.currentResponseLines = lines]

processLine(h, line) ==
    LET cl == h.client
        seen == [h EXCEPT !.log.consumed = Append(@, line)]
    IN  IF line.sep \notin {" ", "-"} THEN seen
        ELSE
        LET code == line.code
            lines == Append(cl.currentResponseLines, line)
        IN  IF line.sep = " "
            THEN LET response == [code |-> code, lines |-> lines]
                     h1 == [seen EXCEPT !.client.currentResponseCode = 0,
                                        !.client.currentResponseLines = <<>>,
                                        !.log.produced = Append(@, response)]
                 IN  IF cl.pending # NoPending
                     THEN LET pending == cl.pending
                              h2 == clearTimeout(
                                      [h1 EXCEPT !.client.pending = NoPending],
                                      pending.timeout)
                          IN  IF code \notin pending.expected
                              THEN settle(h2, pending.owner, "rejected",
                                          response, Unexpected(code))
                              ELSE settle(h2, pending.owner, "fulfilled",
                                          response, NoError)
                     ELSE [h1 EXCEPT !.client.queuedResponses = Append(@, response)]
            ELSE [seen EXCEPT !.client.currentResponseCode =
                                    IF @ = 0 THEN code ELSE @,
                              !.client.currentResponseLines = lines]

\* A chunk is a sequence of fragments; "whole" and "tail" fragments end in
\* a newline, a "head" fragment does not.
HasNewline(fragment) == fragment.part \in {"whole", "tail"}

indexOfNewline(buf) ==
    IF \E i \in 1 .. Len(buf) : HasNewline(buf[i])
    THEN CHOOSE i \in 1 .. Len(buf) :
            /\ HasNewline(buf[i])
            /\ \A j \in 1 .. (i - 1) : ~HasNewline(buf[j])
    ELSE 0

\* The text of a raw line without its line end: the line its fragments spell.
\* Fragments of different lines run together keep the start of the first.
rawLineText(raw) ==
    IF \A i \in 1 .. Len(raw) : raw[i].line = raw[1].line
    THEN raw[1].line
    ELSE [code |-> raw[1].line.code, sep |-> raw[1].line.sep, tag |-> Unsolicited]

RECURSIVE handleLines(_, _)
handleLines(h, buf) ==
    LET index == indexOfNewline(buf)
    IN  IF index = 0 THEN [h EXCEPT !.client.buffer = buf]
        ELSE handleLines(processLine(h, rawLineText(SubSeq(buf, 1, index))),
                         SubSeq(buf, index + 1, Len(buf)))

handleData(h, chunk) == handleLines(h, h.client.buffer \o chunk)

(* ------------------------ awaiting a response -------------------------- *)

timeoutMs(h) ==
    IF h.client.options.timeoutMs = 0 THEN DefaultTimeoutMs
    ELSE h.client.options.timeoutMs

\* A variant of readResponse without the check of this.pending (C1 does not
\* hold of it).
readResponseUnguarded(h, c, expected) ==
    IF Len(h.client.queuedResponses) > 0
    THEN LET existing == Head(h.client.queuedResponses)
             h1 == [h EXCEPT !.client.queuedResponses = Tail(@)]
         IN  IF existing.code \notin expected
             THEN settle(h1, c, "rejected", existing, Unexpected(existing.code))
             ELSE settle(h1, c, "fulfilled", existing, NoError)
    ELSE LET timeout == [id |-> <<h.callers[c].call, h.callers[c].pc>>,
                         delay |-> timeoutMs(h)]
         IN  [h EXCEPT !.timers = @ \cup {timeout},
                       !.client.pending = [owner |-> c, expected |-> expected,
                                           timeout |-> timeout]]

\* A variant of readResponse that takes the newest queued response (pop
\* instead of shift; C5 does not hold of it).
readResponseNewest(h, c, expected) ==
    IF h.client.pending # NoPending THEN [h EXCEPT !.thrown = AlreadyPending]
    ELSE IF Len(h.client.queuedResponses) > 0
    THEN LET queue == h.client.queuedResponses
             existing == queue[Len(queue)]
             h1 == [h EXCEPT !.client.queuedResponses =
                                SubSeq(queue, 1, Len(queue) - 1)]
         IN  IF existing.code \notin expected
             THEN settle(h1, c, "rejected", existing, Unexpected(existing.code))
             ELSE settle(h1, c, "fulfilled", existing, NoError)
    ELSE LET timeout == [id |-> <<h.callers[c].call, h.callers[c].pc>>,
                         delay |-> timeoutMs(h)]
         IN  [h EXCEPT !.timers = @ \cup {timeout},
                       !.client.pending = [owner |-> c, expected |-> expected,
                                           timeout |-> timeout]]

readResponse(h, c, expected) ==
    IF h.client.pending # NoPending THEN [h EXCEPT !.thrown = AlreadyPending]
    ELSE IF Len(h.client.queuedResponses) > 0
    THEN LET existing == Head(h.client.queuedResponses)
             h1 == [h EXCEPT !.client.queuedResponses = Tail(@)]
         IN  IF existing.code \notin expected
             THEN settle(h1, c, "rejected", existing, Unexpected(existing.code))
             ELSE settle(h1, c, "fulfilled", existing, NoError)
    ELSE LET timeout == [id |-> <<h.callers[c].call, h.callers[c].pc>>,
                         delay |-> timeoutMs(h)]
         IN  [h EXCEPT !.timers = @ \cup {timeout},
                       !.client.pending = [owner |-> c, expected |-> expected,
                                           timeout |-> timeout]]

\* A variant of the timer's callback that rejects nobody (C10 does not hold
\* of it).
onTimeoutSilent(h, timeout) == [h EXCEPT !.timers = @ \ {timeout}]

\* A variant of the timer's callback that also destroys the socket (C11 does
\* not hold of it).
onTimeoutClosing(h, timeout) ==
    LET h1 == [h EXCEPT !.timers = @ \ {timeout}]
    IN  IF h1.client.pending # NoPending
        THEN LET pending == h1.client.pending
             IN  settle([h1 EXCEPT !.client.pending = NoPending,
                                   !.sock = "destroyed"],
                        pending.owner, "rejected", NoResponse, TimedOut)
        ELSE h1

\* The callback of the setTimeout armed in readResponse.
onTimeout(h, timeout) ==
    LET h1 == [h EXCEPT !.timers = @ \ {timeout}]
    IN  IF h1.client.pending # NoPending
        THEN LET pending == h1.client.pending
             IN  settle([h1 EXCEPT !.client.pending = NoPending],
                        pending.owner, "rejected", NoResponse, TimedOut)
        ELSE h1

\* A variant of failPending that leaves the timer armed (C30 does not hold
\* of it).
failPendingKeepingTimer(h, error) ==
    IF h.client.pending = NoPending THEN h
    ELSE LET pending == h.client.pending
         IN  settle([h EXCEPT !.client.pending = NoPending],
                    pending.owner, "rejected", NoResponse, error)

failPending(h, error) ==
    IF h.client.pending = NoPending THEN h
    ELSE LET pending == h.client.pending
         IN  settle(clearTimeout([h EXCEPT !.client.pending = NoPending],
                                 pending.timeout),
                    pending.owner, "rejected", NoResponse, error)

(* ------------------------------ writing -------------------------------- *)

\* socket.write; on a transport that is no longer open the data is dropped.
write(h, c, data) ==
    IF h.client.socket = NoSocket THEN [h EXCEPT !.thrown = Unavailable]
    ELSE LET item == [data |-> data, layer |-> h.client.socket.layer,
                      tag |-> <<h.callers[c].call, h.callers[c].pc>>]
         IN  [h EXCEPT !.callers[c].wrote = Append(@, item),
                       !.written = IF h.sock = "open" /\ data # "BODY"
                                   THEN Append(@, item) ELSE @]

sendCommand(h, c, command, expected) ==
    LET h1 == write(h, c, command)
        h2 == [h1 EXCEPT !.callers[c].awaits =
                            IF h.sock = "open"
                            THEN <<h.callers[c].call, h.callers[c].pc>>
                            ELSE NotSent]
    IN  IF h1.thrown # NoError THEN h1 ELSE readResponse(h2, c, expected)

sendData(h, c, data) ==
    LET h1 == write(h, c, data)
    IN  IF h1.thrown # NoError THEN h1
        ELSE [h1 EXCEPT !.callers[c].settled = "fulfilled"]

(* --------------------------- the methods ------------------------------- *)

\* connect: the socket is created (tls.connect or net.connect) with its data
\* and error handlers, then the greeting is awaited.
openSocket(h) ==
    [h EXCEPT !.client.socket =
                    [layer |-> IF h.client.options.security = "ssl"
                               THEN "tls" ELSE "plain",
                     on |-> {"data", "error"}],
              !.sock = "open"]

\* startTls after the 220: the transport is wrapped by tls.connect.
upgrade(h) ==
    IF h.client.socket = NoSocket THEN [h EXCEPT !.thrown = Unavailable]
    ELSE [h EXCEPT !.client.socket = [layer |-> "tls", on |-> {"data", "error"}]]

\* A variant of quit's finally block that leaves the socket alone (C8 does
\* not hold of it).
teardownSkipped(h) == h

\* quit's finally block: this.socket?.end(); this.socket?.destroy().
teardown(h) ==
    IF h.client.socket = NoSocket THEN h ELSE [h EXCEPT !.sock = "destroyed"]

\* An exception thrown inside an async method rejects what its caller awaits.
rejectThrown(h, c) ==
    IF h.thrown = NoError THEN h
    ELSE [h EXCEPT !.callers[c].settled = "rejected",
                   !.callers[c].response = NoResponse,
                   !.callers[c].error = h.thrown,
                   !.thrown = NoError]

\* Caller c runs step k of its method up to the await.
issue(h, c, k) ==
    LET st == Steps(h.callers[c].method)[k]
        h0 == [h EXCEPT !.callers[c].pc = k,
                        !.callers[c].status = "awaiting",
                        !.callers[c].settled = "none",
                        !.callers[c].response = NoResponse,
                        !.callers[c].error = NoError,
                        !.callers[c].awaits =
                            IF st.kind = "greeting" THEN Greeting ELSE NotSent]
    IN  rejectThrown(
            CASE st.kind = "greeting" -> readResponse(openSocket(h0), c, st.expected)
              [] st.kind = "command" -> sendCommand(h0, c, st.cmd, st.expected)
              [] OTHER -> sendData(h0, c, st.cmd),
            c)

finished(h, c, status) == [h EXCEPT !.callers[c].status = status]

\* quit: the catch block swallows the failure of QUIT, the finally block
\* tears the transport down.
quitFinally(h, c) == finished(teardown(h), c, "done")

\* startTls after its command was accepted.
startTlsUpgrade(h, c) ==
    LET h1 == upgrade(h)
    IN  IF h1.thrown # NoError THEN finished(rejectThrown(h1, c), c, "failed")
        ELSE finished(h1, c, "done")

\* The continuation of caller c once what it awaits has settled: a rejection
\* ends the method (in quit: is caught), a fulfilment lets it go on.
resume(h, c) ==
    LET me == h.callers[c]
    IN  IF me.settled = "rejected"
        THEN IF me.method = "quit" THEN quitFinally(h, c)
             ELSE finished(h, c, "failed")
        ELSE IF me.pc < Len(Steps(me.method)) THEN issue(h, c, me.pc + 1)
        ELSE IF me.method = "quit" THEN quitFinally(h, c)
        ELSE IF me.method = "startTls" THEN startTlsUpgrade(h, c)
        ELSE finished(h, c, "done")

(* ------------------------------ state ---------------------------------- *)

IdleCaller == [method |-> "", call |-> 0, pc |-> 0, status |-> "idle",
               settled |-> "none", response |-> NoResponse, error |-> NoError,
               awaits |-> NotSent, wrote |-> <<>>, got |-> <<>>, answers |-> <<>>]

\* new SmtpClient(options): the field initialisers and the constructor.
SmtpClient(options) ==
    [socket |-> NoSocket, buffer |-> <<>>,
     currentResponseCode |-> 0, currentResponseLines |-> <<>>,
     queuedResponses |-> <<>>, pending |-> NoPending,
     options |-> options]

Init ==
    /\ \E security \in SmtpSecurity :
          client = SmtpClient([security |-> security, timeoutMs |-> 0])
    /\ timers = {}
    /\ callers = [c \in CallerIds |-> IdleCaller]
    /\ calls = 0
    /\ sock = "none"
    /\ written = <<>>
    /\ wire = <<>>
    /\ server = [greeted |-> FALSE, extra |-> 0]
    /\ log = EmptyLog
    /\ driver = NoDriver
    /\ mail = NoMail
    /\ zip = NoZip
    /\ form = NoForm

\* A continuation that is ready to run, and the continuation of whoever
\* awaits a finished invocation, run before any further callback.
Runnable(c) == callers[c].status = "awaiting" /\ callers[c].settled # "none"
Finished(c) == callers[c].status \in {"done", "failed"}
NoMicrotask == \A c \in CallerIds : ~Runnable(c) /\ ~Finished(c)

Awaiting(c) == callers[c].status = "awaiting" /\ callers[c].settled = "none"

(* ----------------------------- actions --------------------------------- *)

\* A public method is invoked; connect is invoked on a fresh client only.
Call(c, method) ==
    /\ NoMicrotask
    /\ calls < MaxCalls
    /\ callers[c].status = "idle"
    /\ \A d \in CallerIds : d < c => callers[d].status # "idle"
    /\ method = "connect" => client.socket = NoSocket
    /\ calls' = calls + 1
    /\ SetHeap(issue([Heap EXCEPT !.callers[c].method = method,
                                  !.callers[c].call = calls + 1], c, 1))
    /\ UNCHANGED <<wire, server>>
    /\ UNCHANGED elsewhere

Resume(c) ==
    /\ Runnable(c)
    /\ SetHeap(resume(Heap, c))
    /\ UNCHANGED <<calls, wire, server>>
    /\ UNCHANGED elsewhere

\* The outcome of a finished invocation is taken by whoever invoked it.
Return(c) ==
    /\ Finished(c)
    /\ SetHeap([Heap EXCEPT !.callers[c] = IdleCaller])
    /\ UNCHANGED <<calls, wire, server>>
    /\ UNCHANGED elsewhere

\* The server: the command it answers next (the greeting first), and the
\* codes it may answer with.
Current(srv) ==
    IF ~srv.greeted THEN Greeting
    ELSE IF srv.unanswered # <<>> THEN Head(srv.unanswered).tag
    ELSE Unsolicited

Accepting(data) ==
    CASE data \in {"GREETING", "STARTTLS"} -> {220}
      [] data \in {"AUTH LOGIN", "USERNAME"} -> {334}
      [] data = "PASSWORD" -> {235}
      [] data = "RCPT TO" -> {250, 251}
      [] data = "DATA" -> {354}
      [] data = "QUIT" -> {221}
      [] OTHER -> {250}

Refusing == {550}

ServerCodes(srv) ==
    IF ~srv.greeted THEN Accepting("GREETING") \cup Refusing
    ELSE IF srv.unanswered # <<>>
    THEN Accepting(Head(srv.unanswered).data) \cup Refusing
    ELSE {250}

\* A line matches /^(\d{3})([ -])(.*)$/ with separator " " or "-"; a line
\* with separator "" does not match.
Separators == {" ", "-", ""}

ServerLine(srv, code, sep) ==
    [code |-> IF sep = "" THEN 0 ELSE code, sep |-> sep, tag |-> Current(srv)]

Regular(srv, sep) == sep = " " /\ Current(srv) # Unsolicited

ServerAfter(srv, sep, cut) ==
    [greeted |-> srv.greeted \/ sep = " ",
     unanswered |-> IF sep = " " /\ srv.greeted /\ srv.unanswered # <<>>
                    THEN Tail(srv.unanswered) ELSE srv.unanswered,
     extra |-> srv.extra + (IF Regular(srv, sep) THEN 0 ELSE 1)
                         + (IF cut THEN 1 ELSE 0)]

\* What the server may send next as at most n fragments: complete lines, the
\* last of them possibly cut before its line end (rest: the line still to
\* be completed).
RECURSIVE Streams(_, _)
Streams(srv, n) ==
    {[chunk |-> <<>>, server |-> srv, rest |-> <<>>]} \cup
    IF n = 0 THEN {}
    ELSE UNION {
        LET line == ServerLine(srv, code, sep)
            whole == ServerAfter(srv, sep, FALSE)
            cut == ServerAfter(srv, sep, TRUE)
        IN  (IF cut.extra > MaxExtra THEN {}
             ELSE {[chunk |-> << [line |-> line, part |-> "head"] >>,
                    server |-> cut, rest |-> << line >>]})
            \cup
            (IF whole.extra > MaxExtra THEN {}
             ELSE {[chunk |-> << [line |-> line, part |-> "whole"] >> \o s.chunk,
                    server |-> s.server, rest |-> s.rest]
                   : s \in Streams(whole, n - 1)})
        : code \in ServerCodes(srv), sep \in Separators }

\* A 'data' event: the rest of a line cut earlier, then what the server
\* sends next.
Data(s) ==
    /\ NoMicrotask
    /\ sock = "open"
    /\ "data" \in client.socket.on
    /\ LET tail == IF wire = <<>> THEN <<>>
                   ELSE << [line |-> wire[1], part |-> "tail"] >>
           chunk == tail \o s.chunk
       IN  /\ chunk # <<>>
           /\ SetHeap([handleData(Heap, chunk) EXCEPT !.written = s.server.unanswered])
    /\ wire' = s.rest
    /\ server' = [greeted |-> s.server.greeted, extra |-> s.server.extra]
    /\ UNCHANGED calls
    /\ UNCHANGED elsewhere

SocketError ==
    /\ NoMicrotask
    /\ sock = "open"
    /\ "error" \in client.socket.on
    /\ SetHeap([failPending(Heap, TransportFailure) EXCEPT !.sock = "errored"])
    /\ UNCHANGED <<calls, wire, server>>
    /\ UNCHANGED elsewhere

Timeout(timeout) ==
    /\ NoMicrotask
    /\ timeout \in timers
    /\ SetHeap(onTimeout(Heap, timeout))
    /\ UNCHANGED <<calls, wire, server>>
    /\ UNCHANGED elsewhere

ServerState == [greeted |-> server.greeted, unanswered |-> written,
                extra |-> server.extra]

Next ==
    \/ \E c \in CallerIds, method \in Methods : Call(c, method)
    \/ \E c \in CallerIds : Resume(c)
    \/ \E c \in CallerIds : Return(c)
    \/ \E s \in Streams(ServerState, MaxExtra + 1) : Data(s)
    \/ SocketError
    \/ \E timeout \in timers : Timeout(timeout)

Spec == Init /\ [][Next]_vars

(* ------------------------ the session drivers -------------------------- *)

\* Strings are sequences of characters; a field that is not given is
\* Undefined.
Undefined == << "undefined" >>
NoSecurity == "undefined"

Whitespace == {" ", "\t", "\r", "\n"}

\* String.prototype.trim
RECURSIVE trimStart(_)
trimStart(str) ==
    IF str # <<>> /\ Head(str) \in Whitespace THEN trimStart(Tail(str)) ELSE str

RECURSIVE trimEnd(_)
trimEnd(str) ==
    IF str # <<>> /\ str[Len(str)] \in Whitespace
    THEN trimEnd(SubSeq(str, 1, Len(str) - 1)) ELSE str

trim(str) == trimEnd(trimStart(str))

\* preferences.x?.trim(): undefined stays undefined.
trimOptional(str) == IF str = Undefined THEN Undefined ELSE trim(str)

\* JavaScript's Number(string) on the port strings of the model.
NaN == [kind |-> "NaN", value |-> 0]
Infinity == [kind |-> "Infinity", value |-> 0]
Finite(n) == [kind |-> "finite", value |-> n]

Number(str) ==
    CASE trim(str) = <<>> -> Finite(0)
      [] trim(str) = << "0" >> -> Finite(0)
      [] trim(str) = << "-", "1" >> -> Finite(0 - 1)
      [] trim(str) = << "2", "5" >> -> Finite(25)
      [] trim(str) = << "I", "n", "f", "i", "n", "i", "t", "y" >> -> Infinity
      [] OTHER -> NaN

isFinite(number) == number.kind = "finite"

\* The preferences the drivers are given.
KindleEmails == {Undefined, <<>>, << " " >>, << " ", "k" >>}
\* The last sender address has a line break inside, which trim() leaves.
SenderEmails == {Undefined, << " " >>, << "s" >>,
                 << "s", ">", "\r", "\n", "R", "C", "P", "T", " ", "T", "O",
                    ":", "<", "x" >>}
SmtpHosts == {Undefined, <<>>, << "h" >>}
SmtpPorts == {Undefined, <<>>, << "0" >>, << "-", "1" >>, << "x" >>,
              << "I", "n", "f", "i", "n", "i", "t", "y" >>, << "2", "5", " " >>}
SmtpUsernames == {Undefined, << " " >>, << "u" >>}
SmtpPasswords == {Undefined, <<>>, << " " >>, << "p" >>}

EmailPreferences ==
    [kindleEmail : KindleEmails, senderEmail : SenderEmails,
     smtpHost : SmtpHosts, smtpPort : SmtpPorts,
     smtpSecurity : SmtpSecurity \cup {NoSecurity},
     smtpUsername : SmtpUsernames, smtpPassword : SmtpPasswords]

\* A variant of !value that takes the empty string for a value (C15 does
\* not hold of it).
FalsyUndefinedOnly(str) == str = Undefined

\* !value for a string that may be undefined.
Falsy(str) == str = Undefined \/ str = <<>>

IncompleteSettings == [message |-> "Incomplete email settings", code |-> 0]

\* normalizePreferences: the settings, and what is missing (the function
\* throws when something is).
normalizePreferences(preferences) ==
    LET kindleEmail == trimOptional(preferences.kindleEmail)
        senderEmail == trimOptional(preferences.senderEmail)
        smtpHost == trimOptional(preferences.smtpHost)
        smtpPort == Number(IF preferences.smtpPort = Undefined THEN <<>>
                           ELSE preferences.smtpPort)
        smtpSecurity == IF preferences.smtpSecurity = NoSecurity THEN "ssl"
                        ELSE preferences.smtpSecurity
        smtpUsername == IF Falsy(trimOptional(preferences.smtpUsername)) THEN <<>>
                        ELSE trimOptional(preferences.smtpUsername)
        smtpPassword == IF preferences.smtpPassword = Undefined THEN <<>>
                        ELSE preferences.smtpPassword
        missing ==
            (IF Falsy(kindleEmail) THEN << "Kindle Address" >> ELSE <<>>)
            \o (IF Falsy(senderEmail) THEN << "Sender Address" >> ELSE <<>>)
            \o (IF Falsy(smtpHost) THEN << "SMTP Server" >> ELSE <<>>)
            \o (IF ~isFinite(smtpPort) \/ smtpPort.value <= 0
                THEN << "SMTP Port" >> ELSE <<>>)
            \o (IF (~Falsy(smtpUsername) /\ Falsy(smtpPassword))
                    \/ (Falsy(smtpUsername) /\ ~Falsy(smtpPassword))
                THEN << "Complete SMTP credentials" >> ELSE <<>>)
    IN  [missing |-> missing,
         settings |-> [kindleEmail |-> kindleEmail, senderEmail |-> senderEmail,
                       smtpHost |-> smtpHost, smtpPort |-> smtpPort,
                       smtpSecurity |-> smtpSecurity,
                       smtpUsername |-> smtpUsername,
                       smtpPassword |-> smtpPassword]]

Drivers == {"sendEpubByEmail", "testEmailPreferences"}

\* The body of the try block: the methods a driver awaits one after the
\* other, the last of them sendMail or verifyRecipient.
\* A variant of the drivers that authenticates whatever the settings (C16
\* does not hold of it).
PlanAlwaysAuth(fn, settings) ==
    << "connect", "sendEhlo" >>
    \o (IF settings.smtpSecurity = "starttls"
        THEN << "startTls", "sendEhlo" >> ELSE <<>>)
    \o << "authLogin" >>
    \o (IF fn = "sendEpubByEmail" THEN << "sendMail" >>
        ELSE << "verifyRecipient" >>)

\* A variant of the drivers that authenticates before the upgrade (C28 does
\* not hold of it).
PlanAuthBeforeUpgrade(fn, settings) ==
    << "connect", "sendEhlo" >>
    \o (IF ~Falsy(settings.smtpUsername) /\ ~Falsy(settings.smtpPassword)
        THEN << "authLogin" >> ELSE <<>>)
    \o (IF settings.smtpSecurity = "starttls"
        THEN << "startTls", "sendEhlo" >> ELSE <<>>)
    \o (IF fn = "sendEpubByEmail" THEN << "sendMail" >>
        ELSE << "verifyRecipient" >>)

Plan(fn, settings) ==
    << "connect", "sendEhlo" >>
    \o (IF settings.smtpSecurity = "starttls"
        THEN << "startTls", "sendEhlo" >> ELSE <<>>)
    \o (IF ~Falsy(settings.smtpUsername) /\ ~Falsy(settings.smtpPassword)
        THEN << "authLogin" >> ELSE <<>>)
    \o (IF fn = "sendEpubByEmail" THEN << "sendMail" >>
        ELSE << "verifyRecipient" >>)

\* await client.method(): the method runs up to its first await.
invoke(h, method, call) ==
    issue([h EXCEPT !.callers[1] = [IdleCaller EXCEPT !.method = method,
                                                      !.call = call]], 1, 1)

\* The driver is called: the preferences are normalised and, when nothing is
\* missing, the client is created and connect() is awaited.
Start(fn, preferences) ==
    /\ driver = NoDriver
    /\ LET normalized == normalizePreferences(preferences)
           settings == normalized.settings
           plan == Plan(fn, settings)
           me == [status |-> "running", fn |-> fn, preferences |-> preferences,
                  settings |-> settings, missing |-> normalized.missing,
                  plan |-> plan, at |-> 0, finally |-> FALSE,
                  error |-> NoError, clients |-> 0, invoked |-> <<>>,
                  failures |-> <<>>]
       IN  IF normalized.missing # <<>>
           THEN /\ driver' = [me EXCEPT !.status = "rejected",
                                        !.error = IncompleteSettings]
                /\ UNCHANGED <<client, timers, callers, calls, sock, written, log>>
           ELSE /\ driver' = [me EXCEPT !.clients = 1, !.at = 1,
                                        !.invoked = << plan[1] >>]
                /\ calls' = calls + 1
                /\ SetHeap(invoke(
                        [Heap EXCEPT !.client =
                            SmtpClient([security |-> settings.smtpSecurity,
                                        timeoutMs |-> 0])],
                        plan[1], calls + 1))
    /\ UNCHANGED <<wire, server, mail, zip>>

\* The driver goes on once the method it awaits has ended: with the next
\* method of the try block or, after a failure or at its end, with quit() in
\* the finally block; after quit() it resolves, or rejects with the failure
\* of the try block.
Proceed ==
    /\ driver.status = "running"
    /\ Finished(1)
    /\ LET me == callers[1]
           failed == me.status = "failed"
           noted == [driver EXCEPT !.failures =
                        IF failed THEN Append(@, me.error) ELSE @]
       IN  IF driver.finally
           THEN /\ driver' = [noted EXCEPT
                        !.status = IF failed \/ driver.error # NoError
                                   THEN "rejected" ELSE "resolved",
                        !.error = IF failed THEN me.error ELSE @]
                /\ SetHeap([Heap EXCEPT !.callers[1] = IdleCaller])
                /\ UNCHANGED calls
           ELSE IF failed \/ driver.at = Len(driver.plan)
           THEN /\ driver' = [noted EXCEPT
                        !.finally = TRUE,
                        !.error = IF failed THEN me.error ELSE @,
                        !.invoked = Append(@, "quit")]
                /\ calls' = calls + 1
                /\ SetHeap(invoke(Heap, "quit", calls + 1))
           ELSE /\ driver' = [noted EXCEPT
                        !.at = @ + 1,
                        !.invoked = Append(@, driver.plan[driver.at + 1])]
                /\ calls' = calls + 1
                /\ SetHeap(invoke(Heap, driver.plan[driver.at + 1], calls + 1))
    /\ UNCHANGED <<wire, server, mail, zip, form>>

\* Before a driver is called there is no client; the value of client stands
\* for none until driver.clients says one was created.
SessionInit ==
    /\ client = SmtpClient([security |-> "none", timeoutMs |-> 0])
    /\ timers = {}
    /\ callers = [c \in CallerIds |-> IdleCaller]
    /\ calls = 0
    /\ sock = "none"
    /\ written = <<>>
    /\ wire = <<>>
    /\ server = [greeted |-> FALSE, extra |-> 0]
    /\ log = EmptyLog
    /\ driver = NoDriver
    /\ mail = NoMail
    /\ zip = NoZip
    /\ form = NoForm

SessionNext ==
    \/ /\ driver = NoDriver
       /\ \E fn \in Drivers, preferences \in EmailPreferences :
              Start(fn, preferences)
       /\ UNCHANGED form
    \/ Proceed
    \/ \E c \in CallerIds : Resume(c)
    \/ \E s \in Streams(ServerState, MaxExtra + 1) : Data(s)
    \/ SocketError
    \/ \E timeout \in timers : Timeout(timeout)

SessionSpec == SessionInit /\ [][SessionNext]_vars

(* ------------------------- fairness ------------------------------------ *)

\* The event loop runs every ready continuation, and an armed timer fires
\* once its delay has passed.
FairSpec ==
    /\ Spec
    /\ WF_vars(\E c \in CallerIds : Resume(c))
    /\ WF_vars(\E c \in CallerIds : Return(c))
    /\ WF_vars(\E timeout \in timers : Timeout(timeout))

(* ------------------------- helpers of the claims ----------------------- *)

\* Caller c starts a step (a command, the greeting or the body) in this step
\* of the run.
Starts(c) ==
    /\ callers'[c].status # "idle"
    /\ \/ callers[c].status = "idle"
       \/ callers'[c].pc # callers[c].pc

StepOf(c) == Steps(callers[c].method)[callers[c].pc]

Datas(wrote) == [i \in 1 .. Len(wrote) |-> wrote[i].data]

IsPrefix(a, b) == Len(a) <= Len(b) /\ a = SubSeq(b, 1, Len(a))

(* ------------------------------- C1 ------------------------------------ *)

\* C1: there is at most one pending response registration: the callers that
\* wait for a response are at most one, and that one is the owner of the
\* pending slot.  A registration is created only by a caller that starts
\* awaiting the greeting or a command's response, a registration is never
\* replaced by another one, and it is removed exactly in a step in which a
\* complete response arrives, a timer fires or the transport reports an error.
C1_Registered ==
    /\ Cardinality({c \in CallerIds : Awaiting(c)}) <= 1
    /\ \A c \in CallerIds : Awaiting(c) <=> client.pending.owner = c

C1_ResponseArrived == log'.produced # <<>>
C1_TimerFired == timers' # timers /\ timers' \subseteq timers
                 /\ log'.produced = <<>> /\ sock' = sock
C1_TransportError == sock = "open" /\ sock' = "errored"

C1_Step ==
    /\ (client.pending = NoPending /\ client'.pending # NoPending)
          => \E c \in CallerIds :
                /\ Starts(c)
                /\ client'.pending.owner = c
                /\ Steps(callers'[c].method)[callers'[c].pc].kind
                      \in {"greeting", "command"}
    /\ (client.pending # NoPending /\ client'.pending # client.pending)
          => client'.pending = NoPending
    /\ client.pending # NoPending
          => ((client'.pending # client.pending)
                <=> (C1_ResponseArrived \/ C1_TimerFired \/ C1_TransportError))

\* C1: at most one pending registration in every state, and every step creates
\* and removes registrations only as C1_Step says.
C1_PendingSlot == [](C1_Registered) /\ [][C1_Step]_vars

\* A second command was refused while the first one keeps waiting.
C1_Witness ==
    \E c, d \in CallerIds :
        /\ Awaiting(c)
        /\ client.pending.owner = c
        /\ callers[d].error = AlreadyPending

(* ------------------------------- C2 ------------------------------------ *)

\* C2: a command started while another command's response is pending is
\* rejected with the usage error, nothing of it is written to the transport,
\* and the pending registration and its timer stay as they were.
C2_Step ==
    \A c \in CallerIds :
        (client.pending # NoPending /\ Starts(c))
            => /\ callers'[c].error = AlreadyPending
               /\ callers'[c].wrote = callers[c].wrote
               /\ written' = written
               /\ client'.pending = client.pending
               /\ timers' = timers

\* C2: every step that starts a command while a response is pending refuses
\* it without writing and leaves the registration alone (C2_Step).
C2_SecondCommandNotWritten == [][C2_Step]_vars

\* A command was refused as already pending after its bytes were written to
\* the open transport, where the server now has it to answer.
C2_Witness ==
    \E c \in CallerIds :
        /\ callers[c].error = AlreadyPending
        /\ callers[c].wrote # <<>>
        /\ \E i \in 1 .. Len(written) :
              written[i].tag = <<callers[c].call, callers[c].pc>>

(* ------------------------------- C3 ------------------------------------ *)

\* C3: the response handed to a command is the one the server sent for that
\* command: every line of a response handed to a caller answers what that
\* caller awaits.
C3_ResponseMatchesCommand ==
    \A i \in 1 .. Len(log.handed) :
        \A j \in 1 .. Len(log.handed[i].response.lines) :
            log.handed[i].response.lines[j].tag = log.handed[i].awaits

\* A command that reached the server was handed, and accepted, a response
\* the server sent for something else.
C3_Witness ==
    \E i \in 1 .. Len(log.handed) :
        LET given == log.handed[i]
        IN  /\ given.awaits \notin {Greeting, NotSent}
            /\ given.response.lines[Len(given.response.lines)].tag # given.awaits
            /\ callers[given.caller].settled = "fulfilled"

(* ------------------------------- C4 ------------------------------------ *)

Matches(line) == line.sep \in {" ", "-"}
IsFinal(line) == line.sep = " "

RECURSIVE AllLines(_)
AllLines(responses) ==
    IF responses = <<>> THEN <<>>
    ELSE Head(responses).lines \o AllLines(Tail(responses))

\* One logical response: continuation lines, then one final line whose code
\* is the response's code.
WellFormed(response) ==
    /\ response.lines # <<>>
    /\ \A j \in 1 .. Len(response.lines) :
          (response.lines[j].sep = " ") <=> (j = Len(response.lines))
    /\ \A j \in 1 .. Len(response.lines) : response.lines[j].sep \in {" ", "-"}
    /\ response.code = response.lines[Len(response.lines)].code

\* C4: the matching lines are accumulated in order and every one of them ends
\* up in exactly one response or is still accumulated; a response is produced
\* exactly per final line, carries the lines accumulated up to it and the code
\* of its final line; lines that complete no response settle, reject and queue
\* nothing; one 'data' event settles at most one caller, with the first
\* response it produced.
C4_Step ==
    LET matched == SelectSeq(log'.consumed, Matches)
    IN  /\ AllLines(log'.produced) \o client'.currentResponseLines
              = client.currentResponseLines \o matched
        /\ Len(log'.produced) = Len(SelectSeq(matched, IsFinal))
        /\ \A i \in 1 .. Len(log'.produced) : WellFormed(log'.produced[i])
        /\ log'.consumed # <<>> /\ log'.produced = <<>>
              => /\ log'.handed = <<>>
                 /\ \A c \in CallerIds :
                        Awaiting(c) => callers'[c] = callers[c]
                 /\ client'.queuedResponses = client.queuedResponses
                 /\ client'.pending = client.pending
                 /\ timers' = timers
        /\ log'.produced # <<>>
              => /\ Len(log'.handed) <= 1
                 /\ Cardinality({c \in CallerIds :
                        callers'[c].settled # callers[c].settled}) <= 1
                 /\ \A i \in 1 .. Len(log'.handed) :
                        log'.handed[i].response = log'.produced[1]

C4_Accumulating ==
    \A j \in 1 .. Len(client.currentResponseLines) :
        client.currentResponseLines[j].sep = "-"

\* C4: only continuation lines are ever accumulated, and every step assembles
\* responses as C4_Step says.
C4_ResponseAssembly == [](C4_Accumulating) /\ [][C4_Step]_vars

\* A response of several lines, with differing codes, settled a caller.
C4_Witness ==
    \E c \in CallerIds :
        /\ callers[c].settled # "none"
        /\ Len(callers[c].response.lines) >= 2
        /\ callers[c].response.lines[1].code # callers[c].response.code
        /\ log.produced # <<>>

(* ------------------------------- C5 ------------------------------------ *)

HandedResponses == [i \in 1 .. Len(log.handed) |-> log.handed[i].response]

\* C5: in every step, the responses handed over followed by the queue after
\* the step are the queue before the step followed by the responses the step
\* assembled: nothing is lost, duplicated or overtaken; and nobody waits
\* while a response is queued.
C5_Step ==
    HandedResponses' \o client'.queuedResponses
        = client.queuedResponses \o log'.produced

C5_NoWaiterBesideQueue ==
    client.queuedResponses # <<>> => client.pending = NoPending

\* C5: the queue is first in, first out in every step (C5_Step), and nobody
\* waits beside a queued response.
C5_QueueFifo == [](C5_NoWaiterBesideQueue) /\ [][C5_Step]_vars

\* A waiter took the oldest queued response while a later one stays queued.
C5_Witness ==
    /\ log.produced = <<>>
    /\ Len(log.handed) = 1
    /\ client.queuedResponses # <<>>
    /\ log.handed[1].response # client.queuedResponses[1]

(* ------------------------------- C6 ------------------------------------ *)

SendMailWrites == << "MAIL FROM", "RCPT TO", "DATA", "BODY", "." >>

\* The codes sendMail receives, in order, when every step is accepted.
SendMailAccepted(got) ==
    /\ Len(got) >= 1 => got[1] \in {250}
    /\ Len(got) >= 2 => got[2] \in {250, 251}
    /\ Len(got) >= 3 => got[3] \in {354}
    /\ Len(got) >= 4 => got[4] \in {250}

\* The responses sendMail must have received before its n-th write.
Answered(n) == IF n = 5 THEN 3 ELSE n - 1

\* The command that the i-th response received by sendMail should answer.
SendMailAnswers(call, i) == IF i = 4 THEN <<call, 5>> ELSE <<call, i>>

\* C6: what a sendMail has written is always a start of MAIL FROM, RCPT TO,
\* DATA, body, "."; a command is written only when the responses received so
\* far are accepted and are the server's responses to all the commands before
\* it; the body and the period are written only after the 354; a sendMail
\* that received four accepted responses ends without error, having written
\* all five; and a sendMail ends well only when the period has been answered.
C6_SendMailOrder ==
    \A c \in CallerIds :
        callers[c].method = "sendMail" =>
            LET me == callers[c]
                n == Len(me.wrote)
            IN  /\ IsPrefix(Datas(me.wrote), SendMailWrites)
                /\ n >= 2 => /\ Len(me.got) >= Answered(n)
                             /\ SendMailAccepted(SubSeq(me.got, 1, Answered(n)))
                             /\ \A i \in 1 .. Answered(n) :
                                    me.answers[i] = SendMailAnswers(me.call, i)
                /\ n = 4 => Len(me.got) = 3
                /\ (Len(me.got) = 4 /\ SendMailAccepted(me.got))
                      => /\ n = 5
                         /\ me.status # "failed"
                         /\ me.settled = "fulfilled"
                /\ me.status = "done"
                      => /\ n = 5 /\ Len(me.got) = 4 /\ SendMailAccepted(me.got)
                         /\ me.answers[4] = SendMailAnswers(me.call, 4)

\* RCPT TO has been written, and reached the server, while the server has
\* not answered MAIL FROM: the response that let it go was a leftover.
C6_Witness ==
    \E c \in CallerIds :
        /\ callers[c].method = "sendMail"
        /\ Len(callers[c].wrote) >= 2
        /\ callers[c].answers[1] # <<callers[c].call, 1>>
        /\ Len(written) >= 2
        /\ written[1].tag = <<callers[c].call, 1>>

(* ------------------------------- C7 ------------------------------------ *)

\* The server's response to the k-th step of invocation call refuses it.
Refuses(response, call) ==
    LET tag == response.lines[Len(response.lines)].tag
    IN  /\ tag[1] = call
        /\ tag[2] \in 1 .. Len(sendMail)
        /\ response.code \notin sendMail[tag[2]].expected

\* What a sendMail step does once it received a code outside its expected
\* set: it rejects with an error that carries that code, sendMail fails, and
\* nothing after the rejected step's command has been written.
C7_Received ==
    \A c \in CallerIds :
        (callers[c].method = "sendMail"
            /\ callers[c].got # <<>>
            /\ ~SendMailAccepted(callers[c].got)) =>
            LET me == callers[c]
            IN  /\ me.settled = "rejected"
                /\ me.status # "done"
                /\ me.error.message = Unexpected(0).message
                /\ me.error.code = me.got[Len(me.got)]
                /\ me.error.code \notin sendMail[me.pc].expected
                /\ SendMailAccepted(SubSeq(me.got, 1, Len(me.got) - 1))
                /\ Datas(me.wrote) = SubSeq(SendMailWrites, 1, me.pc)
                /\ me.pc < 3 => \A i \in 1 .. Len(me.wrote) :
                                    me.wrote[i].data \notin {"DATA", "BODY", "."}
                /\ me.pc = 3 => \A i \in 1 .. Len(me.wrote) :
                                    me.wrote[i].data \notin {"BODY", "."}

\* Nothing is written by a sendMail once the server's refusal of one of its
\* commands has been received.
C7_Step ==
    \A c \in CallerIds :
        (callers'[c].method = "sendMail"
            /\ Len(callers'[c].wrote) > Len(callers[c].wrote))
            => \A i \in 1 .. Len(client.queuedResponses) :
                    ~Refuses(client.queuedResponses[i], callers'[c].call)

\* C7: a sendMail step that receives a code outside its expected set fails
\* sendMail with an error carrying that code and nothing later is written
\* (C7_Received); in particular no command of a sendMail is written after the
\* refusal of an earlier one of its commands was received (C7_Step).
C7_SendMailRejected == [](C7_Received) /\ [][C7_Step]_vars

\* DATA was written after the server's 550 to RCPT TO had been received: the
\* 550 was waiting in the queue and is handed to the await of DATA.
C7_Witness ==
    \E i \in 1 .. Len(log.handed) :
        LET given == log.handed[i]
            me == callers[given.caller]
        IN  /\ me.method = "sendMail"
            /\ log.produced = <<>>
            /\ given.awaits = <<me.call, 3>>
            /\ given.response.code = 550
            /\ given.response.lines[Len(given.response.lines)].tag = <<me.call, 2>>
            /\ me.wrote[Len(me.wrote)].data = "DATA"

(* ------------------------------- C8 ------------------------------------ *)

\* C8: quit never fails, whatever became of its QUIT command, and the step
\* that ends it leaves the client's transport, if it has one, destroyed.
C8_NeverFails ==
    \A c \in CallerIds : callers[c].method = "quit" => callers[c].status # "failed"

C8_Step ==
    \A c \in CallerIds :
        (callers'[c].method = "quit" /\ callers'[c].status = "done"
            /\ callers[c].status # "done")
            => client'.socket = NoSocket \/ sock' = "destroyed"

\* C8: quit never fails, and the step that ends it tears the transport down.
C8_QuitSafe == [](C8_NeverFails) /\ [][C8_Step]_vars

\* A quit whose QUIT timed out has ended, the transport destroyed.
C8_Witness ==
    \E c \in CallerIds :
        /\ callers[c].method = "quit"
        /\ callers[c].status = "done"
        /\ callers[c].error = TimedOut
        /\ sock = "destroyed"

(* ------------------------------- C9 ------------------------------------ *)

\* C9 as stated: connect ends well only with a greeting whose final code is
\* 220, and a connect that has failed leaves no open transport with the
\* client.
C9_FailedConnectDisconnected ==
    \A c \in CallerIds :
        callers[c].method = "connect" =>
            /\ callers[c].status = "done" => callers[c].response.code = 220
            /\ callers[c].status = "failed"
                  => client.socket = NoSocket \/ sock # "open"

\* C9 as amended: connect ends well only with a response whose final line
\* carries 220; it fails on any other final code, on a timeout and on a
\* transport error (which rejects the awaited greeting); failing, it keeps
\* the socket it created and does not close it: only quit destroys the
\* transport.
C9_Outcome ==
    \A c \in CallerIds :
        callers[c].method = "connect" =>
            /\ callers[c].status = "done"
                  => /\ callers[c].response.code = 220
                     /\ WellFormed(callers[c].response)
            /\ callers[c].got # <<>> /\ callers[c].got[1] # 220
                  => /\ callers[c].settled = "rejected"
                     /\ callers[c].status # "done"
            /\ callers[c].settled = "rejected" => callers[c].status # "done"
            /\ callers[c].status = "failed"
                  => /\ callers[c].error \in
                            {Unexpected(550), TimedOut, TransportFailure}
                     /\ client.socket # NoSocket

C9_Step ==
    /\ \A c \in CallerIds :
          (callers[c].method = "connect" /\ Awaiting(c)
              /\ sock = "open" /\ sock' = "errored")
              => /\ callers'[c].settled = "rejected"
                 /\ callers'[c].error = TransportFailure
    /\ \A c \in CallerIds :
          (callers'[c].method = "connect" /\ callers'[c].status = "failed"
              /\ callers[c].status # "failed")
              => /\ client'.socket = client.socket
                 /\ sock' = sock
    /\ (sock' = "destroyed" /\ sock # "destroyed")
          => \E c \in CallerIds :
                /\ callers'[c].method = "quit"
                /\ callers'[c].status = "done"
                /\ callers[c].status # "done"

\* C9 (amended): the outcome of connect is decided by the final code of the
\* greeting, and a failed connect keeps its socket (C9_Outcome, C9_Step).
C9_ConnectGreeting == [](C9_Outcome) /\ [][C9_Step]_vars

\* connect has failed on a 550 greeting and the transport is still open.
C9_Witness ==
    \E c \in CallerIds :
        /\ callers[c].method = "connect"
        /\ callers[c].status = "failed"
        /\ callers[c].error = Unexpected(550)
        /\ sock = "open"

(* ------------------------------- C10 ----------------------------------- *)

\* C10: whoever waits for a response has a timer of 15000 ms armed for it,
\* and every wait ends.
C10_TimerArmed ==
    client.pending # NoPending
        => /\ client.pending.timeout \in timers
           /\ client.pending.timeout.delay = DefaultTimeoutMs

\* C10: every wait has its 15000 ms timer armed, and every wait ends.
C10_EveryAwaitSettles ==
    /\ [](C10_TimerArmed)
    /\ \A c \in CallerIds : Awaiting(c) ~> ~Awaiting(c)

\* A wait that saw only a continuation line was ended by its timer.
C10_Witness ==
    \E c \in CallerIds :
        /\ callers[c].settled = "rejected"
        /\ callers[c].error = TimedOut
        /\ client.currentResponseLines # <<>>

(* ------------------------------- C11 ----------------------------------- *)

\* The await of caller c is rejected, in this step, by a timeout or by an
\* unexpected status code.
C11_Rejected(c) ==
    /\ Awaiting(c)
    /\ callers'[c].settled = "rejected"
    /\ callers'[c].error.message \in {TimedOut.message, Unexpected(0).message}

\* The operation of caller c, not a quit, ends in this step on such a
\* rejection.
C11_Fails(c) ==
    /\ Runnable(c)
    /\ callers[c].method # "quit"
    /\ callers[c].error.message \in {TimedOut.message, Unexpected(0).message}
    /\ callers'[c].status = "failed"

C11_Step ==
    /\ \A c \in CallerIds :
          (C11_Rejected(c) \/ C11_Fails(c))
              => /\ client'.socket = client.socket
                 /\ sock' = sock
                 /\ \A d \in CallerIds \ {c} : callers'[d] = callers[d]
    /\ (sock = "open" /\ sock' # "open")
          => \/ sock' = "errored" /\ log'.produced = <<>> /\ timers' \subseteq timers
             \/ /\ sock' = "destroyed"
                /\ \E c \in CallerIds :
                      /\ callers[c].method = "quit"
                      /\ callers'[c].status = "done"
    /\ client.socket # NoSocket => client'.socket # NoSocket

\* C11: a step in which a timeout or an unexpected status code rejects an
\* await, or in which the operation fails on that rejection, changes neither
\* the client's socket nor the state of the transport nor any other caller;
\* an open transport stops being open only by a transport error or by the end
\* of a quit; and the client never gives up its socket.
C11_TransportLeftAsIs == [][C11_Step]_vars

\* A command other than connect and quit has failed on a timeout or on a 550
\* and the transport is still open.
C11_Witness ==
    \E c \in CallerIds :
        /\ callers[c].method \in {"sendEhlo", "sendMail", "authLogin"}
        /\ callers[c].status = "failed"
        /\ callers[c].error \in {TimedOut, Unexpected(550)}
        /\ callers[c].awaits # NotSent
        /\ sock = "open"

(* ------------------------------ dotStuff ------------------------------- *)

\* Strings are sequences of characters.
CRLF == << "\r", "\n" >>

\* The client and the drivers at rest, for the specifications of the pure
\* functions.
session == <<client, timers, callers, calls, sock, written, wire, server, log,
             driver>>

AtRest ==
    /\ client = SmtpClient([security |-> "none", timeoutMs |-> 0])
    /\ timers = {}
    /\ callers = [c \in CallerIds |-> IdleCaller]
    /\ calls = 0
    /\ sock = "none"
    /\ written = <<>>
    /\ wire = <<>>
    /\ server = [greeted |-> FALSE, extra |-> 0]
    /\ log = EmptyLog
    /\ driver = NoDriver

\* message.split(/\r?\n/): a line ends at "\n", and a "\r" right before
\* that "\n" belongs to the line break.
RECURSIVE splitLines(_, _)
splitLines(text, line) ==
    IF text = <<>> THEN << line >>
    ELSE IF Head(text) = "\n"
    THEN << IF line # <<>> /\ line[Len(line)] = "\r"
            THEN SubSeq(line, 1, Len(line) - 1) ELSE line >>
         \o splitLines(Tail(text), <<>>)
    ELSE splitLines(Tail(text), Append(line, Head(text)))

split(message) == splitLines(message, <<>>)

startsWith(line, char) == line # <<>> /\ line[1] = char

RECURSIVE join(_, _)
join(lines, separator) ==
    IF lines = <<>> THEN <<>>
    ELSE IF Len(lines) = 1 THEN lines[1]
    ELSE lines[1] \o separator \o join(Tail(lines), separator)

\* A variant of dotStuff that doubles the period of a line that is exactly
\* "." and of no other line (C17 does not hold of it).
dotStuffLonePeriod(message) ==
    LET lines == split(message)
    IN  join([i \in 1 .. Len(lines) |->
                IF lines[i] = << "." >> THEN << "." >> \o lines[i] ELSE lines[i]],
             CRLF)

dotStuff(message) ==
    LET lines == split(message)
    IN  join([i \in 1 .. Len(lines) |->
                IF startsWith(lines[i], ".") THEN << "." >> \o lines[i]
                ELSE lines[i]],
             CRLF)

\* The messages given to sendMail: every string over these characters of at
\* most MaxMessage characters.
MaxMessage == 7

MessageChars == {".", "a", "\r", "\n"}

Messages == UNION {[1 .. n -> MessageChars] : n \in 0 .. MaxMessage}

\* sendMail after the 354 to DATA: sendData(dotStuff(input.message)), then
\* sendCommand("."); mail.written is what these write to the socket.
DotInit ==
    /\ AtRest
    /\ form = NoForm
    /\ \E message \in Messages :
          mail = [status |-> "message", message |-> message,
                  payload |-> <<>>, written |-> <<>>]
    /\ zip = NoZip

MailData ==
    /\ mail.status = "message"
    /\ mail' = [mail EXCEPT !.status = "data",
                            !.payload = dotStuff(mail.message),
                            !.written = dotStuff(mail.message) \o CRLF]
    /\ UNCHANGED <<session, zip, form>>

MailPeriod ==
    /\ mail.status = "data"
    /\ mail' = [mail EXCEPT !.status = "period",
                            !.written = @ \o << "." >> \o CRLF]
    /\ UNCHANGED <<session, zip, form>>

DotSpec == DotInit /\ [][MailData \/ MailPeriod]_vars

(* -------------------------- buildMimeMessage --------------------------- *)

\* A character is a string: itself if it is ASCII, its code point otherwise
\* ("U+00E9" is e with acute, "U+0301" the combining acute accent). Text
\* of the template that no function works on is kept in one piece.
Printable ==
    <<
       " ", "!", "\"", "#", "$", "%", "&", "'", "(", ")", "*", "+", ",",
       "-", ".", "/", "0", "1", "2", "3", "4", "5", "6", "7", "8", "9",
       ":", ";", "<", "=", ">", "?", "@", "A", "B", "C", "D", "E", "F",
       "G", "H", "I", "J", "K", "L", "M", "N", "O", "P", "Q", "R", "S",
       "T", "U", "V", "W", "X", "Y", "Z", "[", "\\", "]", "^", "_", "U+0060",
       "a", "b", "c", "d", "e", "f", "g", "h", "i", "j", "k", "l", "m",
       "n", "o", "p", "q", "r", "s", "t", "u", "v", "w", "x", "y", "z",
       "{", "|", "}", "~"
    >>

charCodeAt(char) ==
    CASE char = "\t" -> 9
      [] char = "\n" -> 10
      [] char = "\r" -> 13
      [] char = "U+00E9" -> 233
      [] char = "U+0301" -> 769
      [] OTHER -> 31 + CHOOSE i \in 1 .. Len(Printable) : Printable[i] = char

\* Buffer.from(value, "utf8"): one byte below 128, two bytes below 2048.
\* (The bytes of a text are those of its halves, one after the other, which
\* keeps the evaluation shallow on the documents of an EPUB.)
RECURSIVE utf8(_)
utf8(value) ==
    IF value = <<>> THEN <<>>
    ELSE IF Len(value) = 1
    THEN LET code == charCodeAt(Head(value))
         IN  IF code < 128 THEN << code >>
             ELSE << 192 + (code \div 64), 128 + (code % 64) >>
    ELSE LET half == Len(value) \div 2
         IN  utf8(SubSeq(value, 1, half))
             \o utf8(SubSeq(value, half + 1, Len(value)))

Base64Alphabet ==
    <<
       "A", "B", "C", "D", "E", "F", "G", "H", "I", "J", "K", "L", "M",
       "N", "O", "P", "Q", "R", "S", "T", "U", "V", "W", "X", "Y", "Z",
       "a", "b", "c", "d", "e", "f", "g", "h", "i", "j", "k", "l", "m",
       "n", "o", "p", "q", "r", "s", "t", "u", "v", "w", "x", "y", "z",
       "0", "1", "2", "3", "4", "5", "6", "7", "8", "9", "+", "/"
    >>

\* buffer.toString("base64")
RECURSIVE base64(_)
base64(bytes) ==
    LET digit(n) == Base64Alphabet[n + 1]
    IN  IF bytes = <<>> THEN <<>>
        ELSE IF Len(bytes) = 1
        THEN << digit(bytes[1] \div 4), digit((bytes[1] % 4) * 16), "=", "=" >>
        ELSE IF Len(bytes) = 2
        THEN << digit(bytes[1] \div 4),
                digit((bytes[1] % 4) * 16 + (bytes[2] \div 16)),
                digit((bytes[2] % 16) * 4), "=" >>
        ELSE << digit(bytes[1] \div 4),
                digit((bytes[1] % 4) * 16 + (bytes[2] \div 16)),
                digit((bytes[2] % 16) * 4 + (bytes[3] \div 64)),
                digit(bytes[3] % 64) >>
             \o base64(SubSeq(bytes, 4, Len(bytes)))

\* value.replace(/[class]+/g, replacement): every run of characters of the
\* class becomes one replacement.
RECURSIVE replaceRuns(_, _, _, _)
replaceRuns(value, class, replacement, inRun) ==
    IF value = <<>> THEN <<>>
    ELSE IF Head(value) \in class
    THEN (IF inRun THEN <<>> ELSE replacement)
         \o replaceRuns(Tail(value), class, replacement, TRUE)
    ELSE << Head(value) >> \o replaceRuns(Tail(value), class, replacement, FALSE)

\* A variant of sanitizeHeader that trims and does nothing else (C18 does
\* not hold of it).
sanitizeHeaderTrimOnly(value) == trim(value)

sanitizeHeader(value) == trim(replaceRuns(value, {"\r", "\n"}, << " " >>, FALSE))

isAscii(value) == \A i \in 1 .. Len(value) : ~(charCodeAt(value[i]) > 127)

encodeHeader(value) ==
    IF isAscii(value) THEN sanitizeHeader(value)
    ELSE << "=?UTF-8?B?" >> \o base64(utf8(value)) \o << "?=" >>

\* value.normalize("NFKD"): e with acute becomes e and the combining accent.
RECURSIVE normalize(_)
normalize(value) ==
    IF value = <<>> THEN <<>>
    ELSE (IF Head(value) = "U+00E9" THEN << "e", "U+0301" >> ELSE << Head(value) >>)
         \o normalize(Tail(value))

ArticleEpub == << "A", "r", "t", "i", "c", "l", "e", ".", "e", "p", "u", "b" >>

toAsciiFilename(value) ==
    LET decomposed == normalize(value)
        normalized == replaceRuns(decomposed,
                                  {char \in {decomposed[i] : i \in 1 .. Len(decomposed)} :
                                        charCodeAt(char) \notin 32 .. 126},
                                  <<>>, FALSE)
        cleaned == trim(replaceRuns(replaceRuns(normalized, {"\"", "\\"},
                                                << " " >>, FALSE),
                                    Whitespace, << " " >>, FALSE))
    IN  IF cleaned = <<>> THEN ArticleEpub ELSE cleaned

\* "%" and the byte in two upper-case hexadecimal digits.
percent(byte) ==
    LET hex == << "0", "1", "2", "3", "4", "5", "6", "7", "8", "9",
                  "A", "B", "C", "D", "E", "F" >>
    IN  << "%", hex[(byte \div 16) + 1], hex[(byte % 16) + 1] >>

\* encodeURIComponent: letters, digits and - _ . ! ~ * ' ( ) stay, every
\* other character becomes the escaped bytes of its UTF-8 encoding.
RECURSIVE encodeURIComponent(_)
encodeURIComponent(value) ==
    IF value = <<>> THEN <<>>
    ELSE LET bytes == utf8(<< Head(value) >>)
             code == charCodeAt(Head(value))
         IN  (IF \/ code \in 48 .. 57 \/ code \in 65 .. 90 \/ code \in 97 .. 122
                 \/ Head(value) \in {"-", "_", ".", "!", "~", "*", "'", "(", ")"}
              THEN << Head(value) >>
              ELSE IF Len(bytes) = 1 THEN percent(bytes[1])
              ELSE percent(bytes[1]) \o percent(bytes[2]))
             \o encodeURIComponent(Tail(value))

encodeRFC5987ValueChars(value) ==
    LET encoded == encodeURIComponent(value)
        escape[i \in 1 .. Len(encoded)] ==
            IF encoded[i] \in {"!", "'", "(", ")", "*"}
            THEN percent(charCodeAt(encoded[i])) ELSE << encoded[i] >>
    IN  join(escape, <<>>)

encodeFilenameHeader(value) ==
    LET sanitized == sanitizeHeader(value)
    IN  [asciiFilename |-> toAsciiFilename(sanitized),
         rfc5987Filename |-> encodeRFC5987ValueChars(sanitized)]

chunkSize == 76

\* The loop of chunkBase64 from position i on, then trimEnd.
RECURSIVE chunks(_, _)
chunks(value, i) ==
    IF i > Len(value) THEN <<>>
    ELSE SubSeq(value, i, IF i + chunkSize - 1 > Len(value) THEN Len(value)
                          ELSE i + chunkSize - 1)
         \o CRLF \o chunks(value, i + chunkSize)

chunkBase64(value) == trimEnd(chunks(value, 1))

buildMimeMessage(input) ==
    LET boundary == << "raycast-", "randomUUID" >>
        subject == encodeHeader(IF input.title = <<>>
                                THEN << "R", "e", "a", "d", "i", "n", "g" >>
                                ELSE input.title)
        now == << "toUTCString" >>
        textBody == << "Here is your article in EPUB format." >>
        attachmentBase64 == chunkBase64(base64(input.epubBuffer))
        names == encodeFilenameHeader(IF input.filename = <<>>
                                      THEN ArticleEpub
                                      ELSE input.filename)
        lines == <<
            << "Date: " >> \o now,
            << "From: " >> \o sanitizeHeader(input.senderEmail),
            << "To: " >> \o sanitizeHeader(input.kindleEmail),
            << "Subject: " >> \o subject,
            << "MIME-Version: 1.0" >>,
            << "Content-Type: multipart/mixed; boundary=\"" >> \o boundary
                \o << "\"" >>,
            <<>>,
            << "--" >> \o boundary,
            << "Content-Type: text/plain; charset=\"utf-8\"" >>,
            << "Content-Transfer-Encoding: 7bit" >>,
            <<>>,
            textBody,
            <<>>,
            << "--" >> \o boundary,
            << "Content-Type: application/epub+zip; name=\"" >>
                \o names.asciiFilename \o << "\"; name*=UTF-8''" >>
                \o names.rfc5987Filename,
            << "Content-Transfer-Encoding: base64" >>,
            << "Content-Disposition: attachment; filename=\"" >>
                \o names.asciiFilename \o << "\"; filename*=UTF-8''" >>
                \o names.rfc5987Filename,
            <<>>,
            attachmentBase64,
            <<>>,
            << "--" >> \o boundary \o << "--" >>,
            <<>> >>
    IN  join(lines, CRLF)

\* The inputs of buildMimeMessage: titles and file names of at most
\* MaxHeader and MaxHeader - 1 characters, addresses with and without a line
\* break, an attachment of one base64 line and one of two.
MaxHeader == 3

Texts(chars, n) == UNION {[1 .. m -> chars] : m \in 0 .. n}

Titles == Texts({"a", " ", "\r", "\n", "U+00E9"}, MaxHeader)

Filenames == Texts({"a", "\r", "\n", "U+00E9", "\"", "*"}, MaxHeader - 1)

Addresses == {<< "a" >>, << "a", "\r", "\n", "a" >>}

EpubBuffers == {<< 80, 75, 3, 4 >>, [i \in 1 .. 58 |-> 80]}

MimeInit ==
    /\ AtRest
    /\ form = NoForm
    /\ \E title \in Titles, filename \in Filenames, epubBuffer \in EpubBuffers,
          senderEmail \in Addresses, kindleEmail \in Addresses :
          mail = [status |-> "input",
                  input |-> [title |-> title, filename |-> filename,
                             epubBuffer |-> epubBuffer,
                             senderEmail |-> senderEmail,
                             kindleEmail |-> kindleEmail],
                  message |-> <<>>]
    /\ zip = NoZip

BuildMimeMessage ==
    /\ mail.status = "input"
    /\ mail' = [mail EXCEPT !.status = "built",
                            !.message = buildMimeMessage(mail.input)]
    /\ UNCHANGED <<session, zip, form>>

MimeSpec == MimeInit /\ [][BuildMimeMessage]_vars

(* ------------------------------- buildZip ------------------------------- *)

\* A 32-bit unsigned number is its four bytes, least significant first, as
\* writeUInt32LE lays it out.
RECURSIVE xorByte(_, _, _)
xorByte(a, b, bits) ==
    IF bits = 0 THEN 0
    ELSE ((a + b) % 2) + 2 * xorByte(a \div 2, b \div 2, bits - 1)

\* a ^ b
xor(a, b) ==
    << xorByte(a[1], b[1], 8), xorByte(a[2], b[2], 8),
       xorByte(a[3], b[3], 8), xorByte(a[4], b[4], 8) >>

\* The inner loop of the table: rounds times
\* c = c & 1 ? 0xedb88320 ^ (c >>> 1) : c >>> 1.
RECURSIVE tableEntry(_, _)
tableEntry(c, rounds) ==
    LET shifted == << (c[1] \div 2) + (c[2] % 2) * 128,
                      (c[2] \div 2) + (c[3] % 2) * 128,
                      (c[3] \div 2) + (c[4] % 2) * 128,
                      c[4] \div 2 >>
    IN  IF rounds = 0 THEN c
        ELSE tableEntry(IF c[1] % 2 = 1
                        THEN xor(<< 32, 131, 184, 237 >>, shifted) ELSE shifted,
                        rounds - 1)

\* table[i] for i from first to last, in order.
RECURSIVE table(_, _)
table(first, last) ==
    IF first = last THEN << tableEntry(<< first, 0, 0, 0 >>, 8) >>
    ELSE table(first, (first + last) \div 2)
         \o table((first + last) \div 2 + 1, last)

\* The table, computed once; CRC_TABLE[index] of the source is
\* CRC_TABLE[index + 1] here, a sequence starting at 1.
CRC_TABLE == table(0, 255)

\* The loop of crc32 over buffer[from] .. buffer[to], from the crc so far.
\* (The loop over a range is the loop over its first half and then, from the
\* crc that leaves, over its second half; the middle and the crc of the
\* first half are computed once, as the one element of a set. This keeps the
\* evaluation shallow on the long buffers of an EPUB.)
RECURSIVE crc32Loop(_, _, _, _)
crc32Loop(buffer, from, to, crc) ==
    IF from > to THEN crc
    ELSE IF from = to
    THEN LET index == xorByte(crc[1], buffer[from], 8)
         IN  xor(<< crc[2], crc[3], crc[4], 0 >>,
                 CRC_TABLE[index + 1])
    ELSE CHOOSE next \in
             UNION { { crc32Loop(buffer, middle + 1, to, first) :
                       first \in { crc32Loop(buffer, from, middle, crc) } } :
                     middle \in { (from + to) \div 2 } } : TRUE

\* A variant of crc32 without the final complement (C25 does not hold of
\* it).
crc32Uncomplemented(buffer, crc) == crc32Loop(buffer, 1, Len(buffer), crc)

\* crc32 from the crc it starts with: the loop, then the final complement.
crc32(buffer, crc) ==
    xor(crc32Loop(buffer, 1, Len(buffer), crc), << 255, 255, 255, 255 >>)

\* buffer.writeUInt16LE(value) and buffer.writeUInt32LE(value): the bytes
\* written (a value out of range makes Node throw; the lengths and offsets
\* of the archives built here are in range).
writeUInt16LE(value) == << value % 256, (value \div 256) % 256 >>

writeUInt32LE(value) ==
    << value % 256, (value \div 256) % 256, (value \div 65536) % 256,
       (value \div 16777216) % 256 >>

localHeader(nameBuffer, crc, length) ==
    << 80, 75, 3, 4 >>                       \* 0x04034b50 at 0
    \o writeUInt16LE(20)                     \* at 4
    \o writeUInt16LE(0)                      \* at 6
    \o writeUInt16LE(0)                      \* at 8
    \o writeUInt16LE(0)                      \* at 10
    \o writeUInt16LE(0)                      \* at 12
    \o crc                                   \* at 14
    \o writeUInt32LE(length)                 \* at 18
    \o writeUInt32LE(length)                 \* at 22
    \o writeUInt16LE(Len(nameBuffer))        \* at 26
    \o writeUInt16LE(0)                      \* at 28
    \o nameBuffer                            \* at 30

centralHeader(nameBuffer, crc, length, offset) ==
    << 80, 75, 1, 2 >>                       \* 0x02014b50 at 0
    \o writeUInt16LE(20)                     \* at 4
    \o writeUInt16LE(20)                     \* at 6
    \o writeUInt16LE(0)                      \* at 8
    \o writeUInt16LE(0)                      \* at 10
    \o writeUInt16LE(0)                      \* at 12
    \o writeUInt16LE(0)                      \* at 14
    \o crc                                   \* at 16
    \o writeUInt32LE(length)                 \* at 20
    \o writeUInt32LE(length)                 \* at 24
    \o writeUInt16LE(Len(nameBuffer))        \* at 28
    \o writeUInt16LE(0)                      \* at 30
    \o writeUInt16LE(0)                      \* at 32
    \o writeUInt16LE(0)                      \* at 34
    \o writeUInt16LE(0)                      \* at 36
    \o writeUInt32LE(0)                      \* at 38
    \o writeUInt32LE(offset)                 \* at 42
    \o nameBuffer                            \* at 46

\* A variant of the end record with the size and the start of the central
\* directory exchanged (C20 does not hold of it).
endRecordExchanged(count, size, offset) ==
    << 80, 75, 5, 6 >>
    \o writeUInt16LE(0) \o writeUInt16LE(0)
    \o writeUInt16LE(count) \o writeUInt16LE(count)
    \o writeUInt32LE(offset) \o writeUInt32LE(size)
    \o writeUInt16LE(0)

endRecord(count, size, offset) ==
    << 80, 75, 5, 6 >>                       \* 0x06054b50 at 0
    \o writeUInt16LE(0)                      \* at 4
    \o writeUInt16LE(0)                      \* at 6
    \o writeUInt16LE(count)                  \* at 8
    \o writeUInt16LE(count)                  \* at 10
    \o writeUInt32LE(size)                   \* at 12
    \o writeUInt32LE(offset)                 \* at 16
    \o writeUInt16LE(0)                      \* at 20

\* A variant of the offset's update that leaves the local header out (C19
\* does not hold of it).
nextOffsetDataOnly(offset, header, data) == offset + Len(data)

\* offset += localHeader.length + data.length
nextOffset(offset, header, data) == offset + Len(header) + Len(data)

\* The entry lists given to buildZip: at most MaxEntries entries, names of
\* one and two characters and of one and two bytes per character, data of
\* zero to two bytes; a name may occur twice.
MaxEntries == 3

ZipEntry ==
    [name : {<< "a" >>, << "U+00E9" >>, << "a", "U+00E9" >>},
     data : {<<>>, << 97 >>, << 80, 75 >>}]

ZipInit ==
    /\ AtRest
    /\ form = NoForm
    /\ mail = NoMail
    /\ \E n \in 0 .. MaxEntries : \E entries \in [1 .. n -> ZipEntry] :
          zip = [status |-> "entries", entries |-> entries, done |-> 0,
                 fileChunks |-> <<>>, centralChunks |-> <<>>, offset |-> 0,
                 archive |-> <<>>]

\* One turn of the loop over the entries.
ZipLoop ==
    /\ zip.status = "entries"
    /\ zip.done < Len(zip.entries)
    /\ LET entry == zip.entries[zip.done + 1]
           nameBuffer == utf8(entry.name)
           data == entry.data
       IN  \E crc \in {crc32(data, << 255, 255, 255, 255 >>)} :
             LET header == localHeader(nameBuffer, crc, Len(data))
             IN  zip' = [zip EXCEPT
                          !.done = @ + 1,
                          !.fileChunks = @ \o header \o data,
                          !.centralChunks =
                              @ \o centralHeader(nameBuffer, crc, Len(data),
                                                 zip.offset),
                          !.offset = nextOffset(@, header, data)]
    /\ UNCHANGED <<session, mail, form>>

\* After the loop: the end record, and the archive put together.
ZipEnd ==
    /\ zip.status = "entries"
    /\ zip.done = Len(zip.entries)
    /\ zip' = [zip EXCEPT
                !.status = "built",
                !.archive = zip.fileChunks \o zip.centralChunks
                            \o endRecord(Len(zip.entries), Len(zip.centralChunks),
                                         zip.offset)]
    /\ UNCHANGED <<session, mail, form>>

ZipSpec == ZipInit /\ [][ZipLoop \/ ZipEnd]_vars

(* --------------------------- buildEpubBuffer --------------------------- *)

\* The characters of a string literal of the source, in order.
RECURSIVE characters(_)
characters(literal) ==
    IF Len(literal) = 0 THEN <<>>
    ELSE IF Len(literal) = 1 THEN << literal >>
    ELSE LET half == Len(literal) \div 2
         IN  characters(SubSeq(literal, 1, half))
             \o characters(SubSeq(literal, half + 1, Len(literal)))

\* input.replace(/char/g, replacement)
RECURSIVE replaceAll(_, _, _)
replaceAll(input, char, replacement) ==
    IF input = <<>> THEN <<>>
    ELSE (IF Head(input) = char THEN replacement ELSE << Head(input) >>)
         \o replaceAll(Tail(input), char, replacement)

escapeHtml(input) ==
    replaceAll(replaceAll(replaceAll(replaceAll(replaceAll(input,
        "&", characters("&amp;")), "<", characters("&lt;")), ">", characters("&gt;")),
        "\"", characters("&quot;")), "'", characters("&#39;"))

\* options.coverResource when there is none.
NoResource == [undefined |-> TRUE]

\* The resources of the model: two that declare the same container path and
\* one whose path and id have characters that escapeHtml rewrites.
\* (properties is empty where the resource has none.)
EpubResource ==
    { [id |-> characters("img-1"), href |-> characters("images/a.png"),
       mediaType |-> characters("image/png"), data |-> << 137, 80 >>,
       properties |-> <<>>],
      [id |-> characters("img-2"), href |-> characters("images/a.png"),
       mediaType |-> characters("image/png"),
       data |-> << 49, 50, 51, 52, 53, 54, 55, 56, 57 >>,
       properties |-> <<>>],
      [id |-> characters("i\"3"), href |-> characters("b&c.jpg"),
       mediaType |-> characters("image/jpeg"), data |-> <<>>,
       properties |-> <<>>] }

\* At most MaxResources resources in a list; a resource may occur twice.
MaxResources == 2

EpubOptions ==
    [title : {<<>>, characters(" <T> ")},
     author : {<<>>},
     language : {characters("fr")},
     bodyHtml : {characters("<p>a</p>")},
     resources : UNION {[1 .. n -> EpubResource] : n \in 0 .. MaxResources},
     coverResource :
         {NoResource,
          [id |-> characters("cover-image"), href |-> characters("images/cover.png"),
           mediaType |-> characters("image/png"), data |-> << 80, 75 >>,
           properties |-> characters("cover-image")]},
     includeTitleInContent : {TRUE}]

\* crypto.randomUUID(): one of the identifiers it can return.
randomUUID ==
    {characters("123e4567-e89b-42d3-a456-426614174000"),
     characters("00000000-0000-4000-8000-000000000000")}

\* value?.trim() || fallback
trimOr(value, fallback) == IF trim(value) = <<>> THEN characters(fallback) ELSE trim(value)

\* A variant of the mimetype entry's data that ends with a line feed (C21
\* does not hold of it).
mimetypeWithLineFeed == utf8(characters("application/epub+zip\n"))

mimetype == utf8(characters("application/epub+zip"))

containerXml ==
    utf8(characters("<?xml version=\"1.0\" encoding=\"UTF-8\"?>\n")
         \o characters("<container version=\"1.0\" xmlns=\"urn:oasis:names:tc:opendocument:xmlns:container\">\n")
         \o characters("  <rootfiles>\n")
         \o characters("    <rootfile full-path=\"OEBPS/content.opf\" media-type=\"application/oebps-package+xml\"/>\n")
         \o characters("  </rootfiles>\n")
         \o characters("</container>\n"))

\* A variant of allResources that puts the cover after the resources (C22
\* does not hold of it).
allResourcesCoverLast(options) ==
    IF options.coverResource # NoResource
    THEN options.resources \o << options.coverResource >>
    ELSE options.resources

allResources(options) ==
    IF options.coverResource # NoResource
    THEN << options.coverResource >> \o options.resources
    ELSE options.resources

\* The items of the resources in the manifest, one to a line.
manifestItems(options) ==
    LET item(resource) ==
            characters("    <item id=\"") \o escapeHtml(resource.id)
            \o characters("\" href=\"") \o escapeHtml(resource.href)
            \o characters("\" media-type=\"") \o escapeHtml(resource.mediaType)
            \o characters("\"")
            \o (IF resource.properties # <<>>
                THEN characters(" properties=\"") \o escapeHtml(resource.properties)
                     \o characters("\"")
                ELSE <<>>)
            \o characters("/>")
    IN  join([i \in 1 .. Len(allResources(options)) |->
                  item(allResources(options)[i])], characters("\n"))

contentOpf(options, uuid) ==
    LET title == trimOr(options.title, "Article")
        author == trimOr(options.author, "Inconnu")
        language == trimOr(options.language, "en")
        coverResource == options.coverResource
        manifestBlock == IF manifestItems(options) # <<>>
                         THEN manifestItems(options) \o characters("\n") ELSE <<>>
        coverMeta == IF coverResource # NoResource
                     THEN characters("    <meta name=\"cover\" content=\"")
                          \o escapeHtml(coverResource.id) \o characters("\"/>\n")
                     ELSE <<>>
        coverManifest == IF coverResource # NoResource
                         THEN characters("    <item id=\"cover\" href=\"cover.xhtml\" media-type=\"application/xhtml+xml\"/>\n")
                         ELSE <<>>
        coverSpine == IF coverResource # NoResource
                      THEN characters("    <itemref idref=\"cover\"/>\n") ELSE <<>>
    IN  utf8(characters("<?xml version=\"1.0\" encoding=\"UTF-8\"?>\n")
             \o characters("<package version=\"3.0\" xmlns=\"http://www.idpf.org/2007/opf\" unique-identifier=\"bookid\">\n")
             \o characters("  <metadata xmlns:dc=\"http://purl.org/dc/elements/1.1/\">\n")
             \o characters("    <dc:identifier id=\"bookid\">urn:uuid:") \o uuid
             \o characters("</dc:identifier>\n")
             \o characters("    <dc:title>") \o escapeHtml(title) \o characters("</dc:title>\n")
             \o characters("    <dc:language>") \o escapeHtml(language)
             \o characters("</dc:language>\n")
             \o characters("    <dc:creator>") \o escapeHtml(author)
             \o characters("</dc:creator>\n")
             \o coverMeta
             \o characters("  </metadata>\n")
             \o characters("  <manifest>\n")
             \o characters("    <item id=\"nav\" properties=\"nav\" href=\"nav.xhtml\" media-type=\"application/xhtml+xml\"/>\n")
             \o coverManifest
             \o characters("    <item id=\"chapter\" href=\"chapter.xhtml\" media-type=\"application/xhtml+xml\"/>\n")
             \o manifestBlock
             \o characters("  </manifest>\n")
             \o characters("  <spine>\n")
             \o coverSpine
             \o characters("    <itemref idref=\"chapter\"/>\n")
             \o characters("  </spine>\n")
             \o characters("</package>\n"))

navXhtml(options) ==
    LET title == trimOr(options.title, "Article")
        language == trimOr(options.language, "en")
    IN  utf8(characters("<?xml version=\"1.0\" encoding=\"UTF-8\"?>\n")
             \o characters("<html xmlns=\"http://www.w3.org/1999/xhtml\" xmlns:epub=\"http://www.idpf.org/2007/ops\" lang=\"")
             \o escapeHtml(language) \o characters("\">\n")
             \o characters("  <head>\n")
             \o characters("    <title>") \o escapeHtml(title) \o characters("</title>\n")
             \o characters("  </head>\n")
             \o characters("  <body>\n")
             \o characters("    <nav epub:type=\"toc\" id=\"toc\">\n")
             \o characters("      <ol>\n")
             \o characters("        <li><a href=\"chapter.xhtml\">") \o escapeHtml(title)
             \o characters("</a></li>\n")
             \o characters("      </ol>\n")
             \o characters("    </nav>\n")
             \o characters("  </body>\n")
             \o characters("</html>\n"))

chapterXhtml(options) ==
    LET title == trimOr(options.title, "Article")
        language == trimOr(options.language, "en")
    IN  utf8(characters("<?xml version=\"1.0\" encoding=\"UTF-8\"?>\n")
             \o characters("<html xmlns=\"http://www.w3.org/1999/xhtml\" lang=\"")
             \o escapeHtml(language) \o characters("\">\n")
             \o characters("  <head>\n")
             \o characters("    <title>") \o escapeHtml(title) \o characters("</title>\n")
             \o characters("    <meta charset=\"UTF-8\" />\n")
             \o characters("    <style>\n")
             \o characters("      h1 { font-size: 1.2em; margin: 0 0 0.6em 0; line-height: 1.2; }\n")
             \o characters("      header { margin: 0; }\n")
             \o characters("    </style>\n")
             \o characters("  </head>\n")
             \o characters("  <body>\n")
             \o (IF options.includeTitleInContent
                 THEN characters("    <header>\n") \o characters("      <h1>")
                      \o escapeHtml(title) \o characters("</h1>\n")
                      \o characters("    </header>\n")
                 ELSE <<>>)
             \o characters("    <article>\n")
             \o options.bodyHtml \o characters("\n")
             \o characters("    </article>\n")
             \o characters("  </body>\n")
             \o characters("</html>\n"))

\* The cover-only document (built when there is a cover resource).
coverXhtml(options) ==
    LET title == trimOr(options.title, "Article")
        language == trimOr(options.language, "en")
    IN  utf8(characters("<?xml version=\"1.0\" encoding=\"UTF-8\"?>\n")
             \o characters("<html xmlns=\"http://www.w3.org/1999/xhtml\" lang=\"")
             \o escapeHtml(language) \o characters("\">\n")
             \o characters("  <head>\n")
             \o characters("    <title>") \o escapeHtml(title) \o characters("</title>\n")
             \o characters("    <meta charset=\"UTF-8\" />\n")
             \o characters("    <style>\n")
             \o characters("      html, body { margin: 0; padding: 0; height: 100%; }\n")
             \o characters("      img { display: block; width: 100%; height: 100%; object-fit: contain; }\n")
             \o characters("    </style>\n")
             \o characters("  </head>\n")
             \o characters("  <body>\n")
             \o characters("    <img src=\"") \o escapeHtml(options.coverResource.href)
             \o characters("\" alt=\"") \o escapeHtml(title) \o characters("\"/>\n")
             \o characters("  </body>\n")
             \o characters("</html>\n"))

\* The entries given to buildZip.
epubEntries(options, uuid) ==
    << [name |-> characters("mimetype"), data |-> mimetype],
       [name |-> characters("META-INF/container.xml"), data |-> containerXml],
       [name |-> characters("OEBPS/content.opf"), data |-> contentOpf(options, uuid)],
       [name |-> characters("OEBPS/nav.xhtml"), data |-> navXhtml(options)] >>
    \o (IF options.coverResource # NoResource
        THEN << [name |-> characters("OEBPS/cover.xhtml"), data |-> coverXhtml(options)] >>
        ELSE <<>>)
    \o << [name |-> characters("OEBPS/chapter.xhtml"), data |-> chapterXhtml(options)] >>
    \o [i \in 1 .. Len(allResources(options)) |->
            [name |-> characters("OEBPS/") \o allResources(options)[i].href,
             data |-> allResources(options)[i].data]]

EpubInit ==
    /\ AtRest
    /\ form = NoForm
    /\ mail = NoMail
    /\ \E options \in EpubOptions : zip = [status |-> "options", options |-> options]

\* buildEpubBuffer up to its call of buildZip, whose loop and end follow as
\* ZipLoop and ZipEnd.
BuildEpubBuffer ==
    /\ zip.status = "options"
    /\ \E uuid \in randomUUID :
          zip' = [status |-> "entries", options |-> zip.options,
                  entries |-> epubEntries(zip.options, uuid), done |-> 0,
                  fileChunks |-> <<>>, centralChunks |-> <<>>, offset |-> 0,
                  archive |-> <<>>]
    /\ UNCHANGED <<session, mail, form>>

EpubSpec == EpubInit /\ [][BuildEpubBuffer \/ ZipLoop \/ ZipEnd]_vars

(* --------------------------- the setup form ---------------------------- *)

\* What the form can be submitted with once its validation has passed: in
\* email mode addresses that isEmail takes, a host, a port from 1 to 65535, a
\* username and a password, with blanks around them or without.
SetupFormValues ==
    [sendMethod : {"app", "email"},
     kindleEmail : {<< "k", "@", "e", ".", "x" >>, << " ", "k", "@", "e", ".", "x" >>},
     senderEmail : {<< "s", "@", "e", ".", "x" >>},
     smtpHost : {<< "h" >>},
     smtpPort : {<< "2", "5", " " >>},
     smtpSecurity : SmtpSecurity,
     smtpUsername : {<< "u" >>},
     smtpPassword : {<< " ", "p" >>}]

\* LocalStorage when it holds no settings, and the settings it can hold
\* before the form is submitted.
NoSettings == [sendMethod |-> "undefined"]

normalizeValues(values) ==
    IF values.sendMethod = "app" THEN [sendMethod |-> "app"]
    ELSE [sendMethod |-> values.sendMethod,
          kindleEmail |-> trimOptional(values.kindleEmail),
          senderEmail |-> trimOptional(values.senderEmail),
          smtpHost |-> trimOptional(values.smtpHost),
          smtpPort |-> trimOptional(values.smtpPort),
          smtpSecurity |-> values.smtpSecurity,
          smtpUsername |-> trimOptional(values.smtpUsername),
          smtpPassword |-> IF values.smtpPassword = Undefined THEN <<>>
                           ELSE values.smtpPassword]

\* The form is shown with what getStoredSendSettings returned.
FormInit ==
    /\ AtRest
    /\ mail = NoMail
    /\ zip = NoZip
    /\ \E saved \in {NoSettings, [sendMethod |-> "app"]} :
          form = [status |-> "shown", saved |-> saved, stored |-> saved,
                  values |-> NoSettings, toast |-> "", completed |-> FALSE]

\* onSubmit up to its first await that can fail: in email mode the toast is
\* shown and testEmailPreferences is called, in app mode the settings are
\* about to be stored.
Submit(values) ==
    /\ form.status = "shown"
    /\ LET trimmedValues == normalizeValues(values)
       IN  IF trimmedValues.sendMethod = "email"
           THEN /\ form' = [form EXCEPT !.status = "testing",
                                        !.values = trimmedValues,
                                        !.toast = "Testing email settings"]
                /\ Start("testEmailPreferences", trimmedValues)
           ELSE /\ form' = [form EXCEPT !.status = "storing",
                                        !.values = trimmedValues]
                /\ UNCHANGED <<session, mail, zip>>

\* A variant of the await of testEmailPreferences that goes on to store the
\* settings however the test ended (C26 does not hold of it).
TestedWhateverTheOutcome ==
    /\ form.status = "testing"
    /\ driver.status \in {"resolved", "rejected"}
    /\ form' = [form EXCEPT !.status = "storing"]
    /\ UNCHANGED <<session, mail, zip>>

\* await testEmailPreferences(trimmedValues) is over: onSubmit goes on to
\* store the settings, or to its catch block with the error thrown.
Tested ==
    /\ form.status = "testing"
    /\ driver.status \in {"resolved", "rejected"}
    /\ form' = IF driver.status = "resolved"
               THEN [form EXCEPT !.status = "storing"]
               ELSE [form EXCEPT !.status = "failed", !.toast = "Setup failed"]
    /\ UNCHANGED <<session, mail, zip>>

\* The rest of the try block: setStoredSendSettings, the toast and the
\* completion callback; LocalStorage.setItem or showToast may reject, which
\* ends in the catch block.
Store ==
    /\ form.status = "storing"
    /\ \E setItem \in {"resolves", "rejects"}, showToast \in {"resolves", "rejects"} :
          form' = IF setItem = "rejects"
                  THEN [form EXCEPT !.status = "failed", !.toast = "Setup failed"]
                  ELSE IF showToast = "rejects"
                  THEN [form EXCEPT !.status = "failed", !.stored = form.values,
                                    !.toast = "Setup failed"]
                  ELSE [form EXCEPT !.status = "done", !.stored = form.values,
                                    !.toast = "Delivery mode saved",
                                    !.completed = TRUE]
    /\ UNCHANGED <<session, mail, zip>>

FormNext ==
    \/ \E values \in SetupFormValues : Submit(values)
    \/ Tested
    \/ Store
    \/ Proceed
    \/ \E c \in CallerIds : Resume(c)
    \/ \E s \in Streams(ServerState, MaxExtra + 1) : Data(s)
    \/ SocketError
    \/ \E timeout \in timers : Timeout(timeout)

FormSpec == FormInit /\ [][FormNext]_vars

(* ----------------------- the text of the commands ---------------------- *)

\* os.hostname(): the name of the machine, which may be empty.
Hostnames == {<<>>, << "m", "b", "p" >>, << "m", "\n", "b" >>}

\* What sendCommand writes for each command of the methods: the text the
\* method builds from its arguments, and the line end sendCommand adds.
commandLine(cmd, settings, hostname) ==
    LET command ==
            CASE cmd = "EHLO" ->
                    characters("EHLO ")
                    \o sanitizeHeader(IF hostname = <<>> THEN characters("raycast")
                                      ELSE hostname)
              [] cmd = "USERNAME" -> base64(utf8(settings.smtpUsername))
              [] cmd = "PASSWORD" -> base64(utf8(settings.smtpPassword))
              [] cmd = "MAIL FROM" ->
                    characters("MAIL FROM:<") \o settings.senderEmail
                    \o characters(">")
              [] cmd = "RCPT TO" ->
                    characters("RCPT TO:<") \o settings.kindleEmail
                    \o characters(">")
              [] OTHER -> characters(cmd)
    IN  command \o CRLF

(* ------------------------------- C12 ----------------------------------- *)

\* C12 as stated: startTls writes STARTTLS, ends well only on a 220 and with
\* the transport wrapped, has then itself written EHLO on the encrypted
\* transport, and leaves the transport alone on any other code.
C12_StartTlsReissuesEhlo ==
    \A c \in CallerIds :
        callers[c].method = "startTls" =>
            LET me == callers[c]
            IN  /\ me.wrote # <<>> => me.wrote[1].data = "STARTTLS"
                /\ me.status = "done"
                      => /\ me.got = << 220 >>
                         /\ client.socket.layer = "tls"
                         /\ \E i \in 1 .. Len(me.wrote) :
                                /\ me.wrote[i].data = "EHLO"
                                /\ me.wrote[i].layer = "tls"
                /\ me.status # "done" => client.socket.layer # "tls"

\* What startTls has done, in every state: it writes STARTTLS on the plain
\* transport and nothing else; it ends well only after a 220, the socket then
\* wrapped with both handlers attached; otherwise the socket is as it was.
C12_Outcome ==
    \A c \in CallerIds :
        callers[c].method = "startTls" =>
            LET me == callers[c]
            IN  /\ Datas(me.wrote) = << "STARTTLS" >>
                /\ me.wrote[1].layer = "plain"
                /\ me.status = "done"
                      => /\ me.got = << 220 >>
                         /\ client.socket = [layer |-> "tls",
                                             on |-> {"data", "error"}]
                /\ me.settled = "rejected" => me.status # "done"
                /\ me.status # "done"
                      => client.socket = [layer |-> "plain",
                                          on |-> {"data", "error"}]

\* The socket is wrapped only by the step that ends startTls after a 220,
\* over the same connection; the driver's next step after startTls is
\* sendEhlo, written on the encrypted transport, or quit if startTls failed.
C12_Step ==
    /\ (client.socket # NoSocket /\ client'.socket # client.socket)
          => /\ sock' = sock
             /\ \E c \in CallerIds :
                    /\ callers[c].method = "startTls"
                    /\ callers[c].status = "awaiting"
                    /\ callers[c].settled = "fulfilled"
                    /\ callers[c].response.code = 220
                    /\ callers'[c].status = "done"
    /\ (callers[1].method = "startTls" /\ callers[1].status = "done")
          => /\ callers'[1].method = "sendEhlo"
             /\ Len(callers'[1].wrote) = 1
             /\ callers'[1].wrote[1].data = "EHLO"
             /\ callers'[1].wrote[1].layer = "tls"
    /\ (callers[1].method = "startTls" /\ callers[1].status = "failed")
          => callers'[1].method = "quit"

\* C12 (amended): startTls sends STARTTLS and requires 220; only after a 220
\* is the transport wrapped, over the same socket and with both handlers, and
\* startTls then returns without sending EHLO: the driver re-issues EHLO on
\* the encrypted transport right after it; on any other outcome startTls
\* fails and the transport is not replaced.
C12_StartTls == [](C12_Outcome) /\ [][C12_Step]_vars

\* After startTls the driver awaits the EHLO it wrote on the encrypted
\* transport.
C12_Witness ==
    /\ driver # NoDriver
    /\ driver.invoked = << "connect", "sendEhlo", "startTls", "sendEhlo" >>
    /\ Awaiting(1)
    /\ callers[1].wrote[1].layer = "tls"
    /\ client.socket.layer = "tls"

(* ------------------------------- C13 ----------------------------------- *)

AuthLoginWrites == << "AUTH LOGIN", "USERNAME", "PASSWORD" >>

\* What an authLogin has written and received, in every state.
C13_Order ==
    \A c \in CallerIds :
        callers[c].method = "authLogin" =>
            LET me == callers[c]
                n == Len(me.wrote)
            IN  /\ IsPrefix(Datas(me.wrote), AuthLoginWrites)
                /\ n >= 1 => /\ Len(me.got) >= n - 1
                             /\ \A i \in 1 .. n - 1 : me.got[i] = 334
                /\ (me.got # <<>>
                        /\ me.got[Len(me.got)] \notin authLogin[Len(me.got)].expected)
                      => /\ me.settled = "rejected"
                         /\ me.status # "done"
                         /\ me.error.message = Unexpected(0).message
                         /\ me.error.code = me.got[Len(me.got)]
                         /\ n = Len(me.got)
                /\ me.status = "done" => /\ n = 3
                                         /\ me.got = << 334, 334, 235 >>

\* An authLogin whose await was rejected (unexpected code, timeout, transport
\* error, response already pending) writes nothing more and never ends well.
C13_Step ==
    \A c \in CallerIds :
        (callers[c].method = "authLogin" /\ callers[c].settled = "rejected"
            /\ callers'[c].call = callers[c].call)
            => /\ callers'[c].wrote = callers[c].wrote
               /\ callers'[c].status # "done"

VerifyRecipientWrites == << "MAIL FROM", "RCPT TO", "RSET" >>

Delivering == {"DATA", "BODY", "."}

\* What a verifyRecipient has written and received, in every state.
C14_VerifyRecipient ==
    \A c \in CallerIds :
        callers[c].method = "verifyRecipient" =>
            LET me == callers[c]
                n == Len(me.wrote)
            IN  /\ IsPrefix(Datas(me.wrote), VerifyRecipientWrites)
                /\ n >= 1 => Len(me.got) >= n - 1
                /\ n >= 2 => me.got[1] = 250
                /\ n >= 3 => me.got[2] \in {250, 251}
                /\ me.status = "done" => /\ n = 3
                                         /\ Len(me.got) = 3
                                         /\ me.got[3] = 250

\* C14: a verifyRecipient writes MAIL FROM, RCPT TO and RSET in that order,
\* each after the step before it received an expected code (250; 250 or
\* 251) and ends well only after 250 to RSET; and in a run of
\* testEmailPreferences no method is called that delivers and nothing that
\* any method has written, or that is on its way to the server, is a DATA
\* command, a message body or a terminating period.
C14_NothingDelivered ==
    /\ C14_VerifyRecipient
    /\ (driver # NoDriver /\ driver.fn = "testEmailPreferences")
          => /\ \A i \in 1 .. Len(driver.invoked) :
                    driver.invoked[i] # "sendMail"
             /\ \A c \in CallerIds : \A i \in 1 .. Len(callers[c].wrote) :
                    callers[c].wrote[i].data \notin Delivering
             /\ \A i \in 1 .. Len(written) : written[i].data \notin Delivering

\* testEmailPreferences ran verifyRecipient to its end.
C14_Witness ==
    /\ driver # NoDriver
    /\ driver.fn = "testEmailPreferences"
    /\ callers[1].method = "verifyRecipient"
    /\ callers[1].status = "done"
    /\ Datas(callers[1].wrote) = VerifyRecipientWrites

(* ------------------------------- C15 ----------------------------------- *)

\* A preference that is absent or consists of white space only.
Blank(str) == str = Undefined \/ \A i \in 1 .. Len(str) : str[i] \in Whitespace

\* The configuration errors: an address or the host empty after trimming, a
\* port that is not a finite positive number, exactly one of user name and
\* password supplied.
Misconfigured(preferences) ==
    LET port == Number(IF preferences.smtpPort = Undefined THEN <<>>
                       ELSE preferences.smtpPort)
        username == ~Blank(preferences.smtpUsername)
        password == preferences.smtpPassword \notin {Undefined, <<>>}
    IN  \/ Blank(preferences.kindleEmail)
        \/ Blank(preferences.senderEmail)
        \/ Blank(preferences.smtpHost)
        \/ port.kind # "finite"
        \/ port.value <= 0
        \/ username # password

\* C15: a driver called with misconfigured preferences fails at once with
\* the 'Incomplete email settings' error: it is never running, no client was
\* created, no method was invoked, there is no socket, nothing was written
\* and no timer was armed.
C15_ConfigurationErrors ==
    (driver # NoDriver /\ Misconfigured(driver.preferences))
        => /\ driver.status = "rejected"
           /\ driver.error = IncompleteSettings
           /\ driver.missing # <<>>
           /\ driver.clients = 0
           /\ driver.invoked = <<>>
           /\ calls = 0
           /\ client.socket = NoSocket
           /\ sock = "none"
           /\ written = <<>>
           /\ wire = <<>>
           /\ timers = {}

\* A driver was called with a user name but no password, everything else
\* being in order, and has failed.
C15_Witness ==
    /\ driver # NoDriver
    /\ driver.status = "rejected"
    /\ driver.missing = << "Complete SMTP credentials" >>
    /\ ~Blank(driver.preferences.smtpUsername)
    /\ driver.preferences.smtpPassword \in {Undefined, <<>>}

(* ------------------------------- C16 ----------------------------------- *)

\* The steps of a session in the order the claim gives them, from the
\* preferences the driver was called with.
SessionSteps(fn, preferences) ==
    << "connect", "sendEhlo" >>
    \o (IF preferences.smtpSecurity = "starttls"
        THEN << "startTls", "sendEhlo" >> ELSE <<>>)
    \o (IF ~Blank(preferences.smtpUsername)
           /\ preferences.smtpPassword \notin {Undefined, <<>>}
        THEN << "authLogin" >> ELSE <<>>)
    \o << IF fn = "sendEpubByEmail" THEN "sendMail" ELSE "verifyRecipient" >>

\* The driver has returned to its caller.
Settled == driver # NoDriver /\ driver.status \in {"resolved", "rejected"}

\* C16: once the client exists the methods are invoked in the order of the
\* session's steps; quit is invoked after the first step that failed, or
\* after the last step, and nothing after it, so exactly once; at most one
\* step fails; the driver resolves only after all steps and quit, rejects
\* with the error of the step that failed, unchanged, and when it returns
\* the transport is destroyed, nothing is pending and no timer is armed.
C16_SessionAsUnit ==
    (driver # NoDriver /\ driver.clients = 1) =>
        LET steps == SessionSteps(driver.fn, driver.preferences)
            invoked == driver.invoked
            n == Len(invoked)
            quits == {i \in 1 .. n : invoked[i] = "quit"}
        IN  /\ n >= 1
            /\ callers[2] = IdleCaller
            /\ Len(driver.failures) <= 1
            /\ IF driver.finally
               THEN /\ quits = {n}
                    /\ IsPrefix(SubSeq(invoked, 1, n - 1), steps)
                    /\ driver.failures = <<>> => n - 1 = Len(steps)
                    /\ driver.failures # <<>> => driver.error = driver.failures[1]
               ELSE /\ quits = {}
                    /\ IsPrefix(invoked, steps)
                    /\ driver.failures = <<>>
                    /\ driver.status = "running"
                    /\ callers[1].method = invoked[n]
            /\ driver.status = "resolved"
                  => /\ driver.failures = <<>>
                     /\ driver.error = NoError
                     /\ invoked = steps \o << "quit" >>
            /\ driver.status = "rejected"
                  => /\ driver.failures # <<>>
                     /\ driver.error = driver.failures[1]
                     /\ driver.error # NoError
            /\ Settled => /\ driver.finally
                          /\ sock = "destroyed"
                          /\ client.pending = NoPending
                          /\ timers = {}
                          /\ callers[1] = IdleCaller

\* A session whose EHLO was refused has run quit and returned the refusal to
\* its caller.
C16_Witness ==
    /\ Settled
    /\ driver.clients = 1
    /\ driver.invoked = << "connect", "sendEhlo", "quit" >>
    /\ driver.error = Unexpected(550)
    /\ sock = "destroyed"

(* ------------------------------- C17 ----------------------------------- *)

\* The lines of a text, told by the positions of its line feeds: line k lies
\* between the (k-1)-th and the k-th line feed, without the carriage return
\* that precedes the k-th.
Breaks(text) == {i \in 1 .. Len(text) : text[i] = "\n"}

LineCount(text) == Cardinality(Breaks(text)) + 1

Break(text, k) ==
    LET breaks == Breaks(text)
    IN  CHOOSE i \in breaks : Cardinality({j \in breaks : j < i}) = k - 1

LineAt(text, k) ==
    LET first == IF k = 1 THEN 1 ELSE Break(text, k - 1) + 1
        next == IF k = LineCount(text) THEN Len(text) + 1 ELSE Break(text, k)
        last == IF next <= Len(text) /\ next - 1 >= first /\ text[next - 1] = "\r"
                THEN next - 2 ELSE next - 1
    IN  SubSeq(text, first, last)

\* The payload against the message it was made from.
C17_Stuffed ==
    mail.status \in {"data", "period"} =>
        LET message == mail.message
            payload == mail.payload
        IN  /\ LineCount(payload) = LineCount(message)
            /\ \A k \in 1 .. LineCount(message) :
                    LET line == LineAt(message, k)
                    IN  LineAt(payload, k) =
                            IF line # <<>> /\ line[1] = "."
                            THEN << "." >> \o line ELSE line
            /\ \A i \in Breaks(payload) : i > 1 /\ payload[i - 1] = "\r"
            /\ \A k \in 1 .. LineCount(payload) : LineAt(payload, k) # << "." >>
            /\ mail.written = payload \o CRLF
                    \o (IF mail.status = "period" THEN << ".", "\r", "\n" >>
                        ELSE <<>>)

\* C17: the payload sendMail writes has the lines of the message, as many
\* and in the same order, each line that starts with "." (a lone "."
\* included) with exactly one more "." in front and every other line as it
\* is, the lines separated by CRLF; so no line of the payload is a lone "."
\* before the terminating one; and stuffing happens when the payload is
\* written: the message itself is never changed and nothing is stuffed before.
C17_DotStuffing ==
    /\ [](C17_Stuffed)
    /\ [](mail.status = "message" => mail.payload = <<>> /\ mail.written = <<>>)
    /\ [][mail'.message = mail.message]_vars

\* A message with a lone ".", a line that starts with "." and a line that
\* does not, ended by a bare line feed and by CRLF, has been sent.
C17_Witness ==
    /\ mail # NoMail
    /\ mail.status = "period"
    /\ mail.message = << ".", "\n", "a", "\r", "\n", ".", "a" >>

(* ------------------------------- C18 ----------------------------------- *)

\* The first piece of each line of the message, for an attachment of the
\* given number of base64 lines; "" is an empty line, "*" any line.
MessageLines(attachment) ==
    << "Date: ", "From: ", "To: ", "Subject: ", "MIME-Version: 1.0",
       "Content-Type: multipart/mixed; boundary=\"", "",
       "--", "Content-Type: text/plain; charset=\"utf-8\"",
       "Content-Transfer-Encoding: 7bit", "",
       "Here is your article in EPUB format.", "",
       "--", "Content-Type: application/epub+zip; name=\"",
       "Content-Transfer-Encoding: base64",
       "Content-Disposition: attachment; filename=\"", "" >>
    \o [i \in 1 .. attachment |-> "*"]
    \o << "", "--", "" >>

\* The number of base64 lines of 76 characters for a buffer of n bytes.
AttachmentLines(n) == ((((n + 2) \div 3) * 4) + 75) \div 76

\* C18: whatever the sender, recipient, title and file name, the message
\* has no CR and no LF other than in the CRLF that ends a line, and its lines
\* are the fixed lines of the template, one for one: the header block is the
\* six lines Date, From, To, Subject, MIME-Version and Content-Type, ended by
\* the first empty line, and the attachment's three header lines follow the
\* second boundary; no input adds a line or ends a header block early.
C18_NoHeaderInjection ==
    mail.status = "built" =>
        LET message == mail.message
            expected == MessageLines(AttachmentLines(Len(mail.input.epubBuffer)))
        IN  /\ \A i \in 1 .. Len(message) :
                  /\ message[i] = "\n" => i > 1 /\ message[i - 1] = "\r"
                  /\ message[i] = "\r" => i < Len(message) /\ message[i + 1] = "\n"
            /\ LineCount(message) = Len(expected)
            /\ \A k \in 1 .. Len(expected) :
                  LET line == LineAt(message, k)
                  IN  /\ expected[k] = "" <=> line = <<>>
                      /\ expected[k] \notin {"", "*"} => line[1] = expected[k]

\* A message was built from a title, a file name and addresses that all
\* contain a line break.
C18_Witness ==
    /\ mail # NoMail
    /\ mail.status = "built"
    /\ mail.input.title = << "a", "\n", "a" >>
    /\ mail.input.filename = << "\r", "\n" >>
    /\ mail.input.senderEmail = << "a", "\r", "\n", "a" >>
    /\ mail.input.kindleEmail = << "a", "\r", "\n", "a" >>

(* ------------------------------- C19 ----------------------------------- *)

\* The number read from the little-endian field of the given width that
\* starts after the first at bytes.
RECURSIVE Field(_, _, _)
Field(bytes, at, width) ==
    IF width = 0 THEN 0
    ELSE bytes[at + 1] + 256 * Field(bytes, at + 1, width - 1)

\* The bytes from..from + length - 1, counted from 0.
Slice(bytes, from, length) == SubSeq(bytes, from + 1, from + length)

\* The length of a name in bytes: e with acute takes two.
ByteLength(name) == Len(name) + Cardinality({i \in 1 .. Len(name) : name[i] = "U+00E9"})

\* Where the claim puts the local header of entry n: after 30 bytes, the
\* name and the data of every entry before it.
RECURSIVE LocalStart(_, _)
LocalStart(entries, n) ==
    IF n = 1 THEN 0
    ELSE LocalStart(entries, n - 1) + 30 + ByteLength(entries[n - 1].name)
         + Len(entries[n - 1].data)

\* The entries written so far lie where the claim puts them, and the running
\* offset is the length of what was written.
C19_Layout ==
    zip # NoZip =>
        LET files == IF zip.status = "built" THEN zip.archive ELSE zip.fileChunks
        IN  /\ \A n \in 1 .. zip.done :
                  LET at == LocalStart(zip.entries, n)
                      entry == zip.entries[n]
                  IN  /\ Slice(files, at, 4) = << 80, 75, 3, 4 >>
                      /\ Field(files, at + 26, 2) = ByteLength(entry.name)
                      /\ Field(files, at + 18, 4) = Len(entry.data)
                      /\ Slice(files, at + 30 + ByteLength(entry.name),
                               Len(entry.data)) = entry.data
            /\ zip.done >= 1 => Slice(files, 0, 4) = << 80, 75, 3, 4 >>
            /\ zip.offset = LocalStart(zip.entries, zip.done + 1)
            /\ Len(zip.fileChunks) = zip.offset

\* What has been written stays where it is: every step only appends, to the
\* entries and to the records that hold their offsets, and the archive begins
\* with the entries as written.
C19_Step ==
    /\ IsPrefix(zip.fileChunks, zip'.fileChunks)
    /\ IsPrefix(zip.centralChunks, zip'.centralChunks)
    /\ zip'.status = "built" => IsPrefix(zip.fileChunks, zip'.archive)

\* C19: the local header of entry n starts at the sum, over the entries
\* before it, of 30 + the name's byte length + the data's length, the first
\* at 0; the running offset is that sum; and nothing written is moved or
\* changed afterwards.
C19_AppendOnly == [](C19_Layout) /\ [][C19_Step]_vars

\* An archive of three entries with names of one, two and three bytes and
\* data of one, two and no bytes was built.
C19_Witness ==
    /\ zip # NoZip
    /\ zip.status = "built"
    /\ zip.entries = << [name |-> << "a" >>, data |-> << 97 >>],
                        [name |-> << "U+00E9" >>, data |-> << 80, 75 >>],
                        [name |-> << "a", "U+00E9" >>, data |-> <<>>] >>
    /\ zip.offset = 99

(* ------------------------------- C20 ----------------------------------- *)

\* Where the central directory's record of entry n starts in it.
RECURSIVE CentralStart(_, _)
CentralStart(entries, n) ==
    IF n = 1 THEN 0
    ELSE CentralStart(entries, n - 1) + 46 + ByteLength(entries[n - 1].name)

\* The central directory's record of entry n against the local header of
\* entry n as it lies in the file data.
C20_Record(n) ==
    LET files == zip.fileChunks
        central == zip.centralChunks
        entry == zip.entries[n]
        name == ByteLength(entry.name)
        l == LocalStart(zip.entries, n)
        c == CentralStart(zip.entries, n)
    IN  /\ Slice(central, c, 4) = << 80, 75, 1, 2 >>
        /\ Field(central, c + 4, 2) = 20
        /\ Field(central, c + 6, 2) = 20
        /\ Field(files, l + 4, 2) = 20
        /\ Field(central, c + 8, 2) = 0 /\ Field(files, l + 6, 2) = 0
        /\ Field(central, c + 10, 2) = 0 /\ Field(files, l + 8, 2) = 0
        /\ Slice(central, c + 12, 4) = Slice(files, l + 10, 4)
        /\ Slice(central, c + 16, 4) = Slice(files, l + 14, 4)
        /\ Field(central, c + 20, 4) = Len(entry.data)
        /\ Field(central, c + 24, 4) = Len(entry.data)
        /\ Field(files, l + 18, 4) = Len(entry.data)
        /\ Field(files, l + 22, 4) = Len(entry.data)
        /\ Field(central, c + 28, 2) = name
        /\ Field(files, l + 26, 2) = name
        /\ Slice(central, c + 30, 12) = [i \in 1 .. 12 |-> 0]
        /\ Field(files, l + 28, 2) = 0
        /\ Field(central, c + 42, 4) = l
        /\ Slice(files, l, 4) = << 80, 75, 3, 4 >>
        /\ Slice(central, c + 46, name) = Slice(files, l + 30, name)

\* C20: the central directory is one record per entry written, in the
\* entries' order and nothing else, each with the name, CRC-32, sizes (both
\* the data's length), method 0, flags 0 and version 20 of the entry's local
\* header and with the offset at which that local header starts; the archive
\* is the entries, the central directory and one end record of 22 bytes
\* that holds the number of entries twice, the central directory's size and
\* its start, which is the length of all local headers and data.
C20_CentralDirectory ==
    zip # NoZip =>
        /\ \A n \in 1 .. zip.done : C20_Record(n)
        /\ Len(zip.centralChunks) = CentralStart(zip.entries, zip.done + 1)
        /\ zip.status = "built" =>
              LET count == Len(zip.entries)
                  start == LocalStart(zip.entries, count + 1)
                  size == CentralStart(zip.entries, count + 1)
                  end == Slice(zip.archive, start + size, 22)
              IN  /\ zip.done = count
                  /\ Len(zip.archive) = start + size + 22
                  /\ Slice(zip.archive, 0, start) = zip.fileChunks
                  /\ Slice(zip.archive, start, size) = zip.centralChunks
                  /\ Slice(end, 0, 4) = << 80, 75, 5, 6 >>
                  /\ Field(end, 4, 2) = 0
                  /\ Field(end, 6, 2) = 0
                  /\ Field(end, 8, 2) = count
                  /\ Field(end, 10, 2) = count
                  /\ Field(end, 12, 4) = size
                  /\ Field(end, 16, 4) = start
                  /\ Field(end, 20, 2) = 0

\* An archive of two entries with the same name and different data was
\* built.
C20_Witness ==
    /\ zip # NoZip
    /\ zip.status = "built"
    /\ Len(zip.entries) = 2
    /\ zip.entries[1].name = zip.entries[2].name
    /\ zip.entries[1].data = << 97 >>
    /\ zip.entries[2].data = << 80, 75 >>
    /\ Slice(zip.centralChunks, 16, 4) = << 67, 190, 183, 232 >>

(* ------------------------------- C21 ----------------------------------- *)

\* The bytes of "mimetype" and of "application/epub+zip" in ASCII.
MimetypeName == << 109, 105, 109, 101, 116, 121, 112, 101 >>

MimetypeData ==
    << 97, 112, 112, 108, 105, 99, 97, 116, 105, 111, 110, 47, 101, 112, 117,
       98, 43, 122, 105, 112 >>

\* C21: whatever the resources and the cover, the archive that buildEpubBuffer
\* returns begins with the local header of an entry named mimetype, stored
\* (method 0) with an extra field of length 0 and sizes of 20, its data the 20
\* bytes of application/epub+zip at offset 38; the first record of the
\* central directory is that entry's, at local offset 0, again stored and
\* with an extra field of length 0.
C21_MimetypeFirst ==
    zip.status = "built" =>
        LET archive == zip.archive
            central == zip.offset
        IN  /\ Slice(archive, 0, 4) = << 80, 75, 3, 4 >>
            /\ Field(archive, 8, 2) = 0
            /\ Field(archive, 18, 4) = 20
            /\ Field(archive, 22, 4) = 20
            /\ Field(archive, 26, 2) = 8
            /\ Field(archive, 28, 2) = 0
            /\ Slice(archive, 30, 8) = MimetypeName
            /\ Slice(archive, 38, 20) = MimetypeData
            /\ Slice(archive, 58, 4) = << 80, 75, 3, 4 >>
            /\ Slice(archive, central, 4) = << 80, 75, 1, 2 >>
            /\ Field(archive, central + 10, 2) = 0
            /\ Field(archive, central + 20, 4) = 20
            /\ Field(archive, central + 24, 4) = 20
            /\ Field(archive, central + 28, 2) = 8
            /\ Field(archive, central + 30, 2) = 0
            /\ Field(archive, central + 42, 4) = 0
            /\ Slice(archive, central + 46, 8) = MimetypeName

\* An archive of nine entries was built from a cover and two resources.
C21_Witness ==
    /\ zip.status = "built"
    /\ zip.options.coverResource # NoResource
    /\ Len(zip.options.resources) = 2
    /\ Len(zip.entries) = 9
    /\ Slice(zip.archive, 38, 20) = MimetypeData

(* ------------------------------- C22 ----------------------------------- *)

\* The entries read back from an archive: from the local header at the given
\* offset on, the name and the data that each header announces, until the
\* bytes at the offset are no local header.
RECURSIVE Stored(_, _)
Stored(archive, at) ==
    IF at + 30 > Len(archive) \/ Slice(archive, at, 4) # << 80, 75, 3, 4 >>
    THEN <<>>
    ELSE CHOOSE stored \in
             { << [name |-> Slice(archive, at + 30, Field(archive, at + 26, 2)),
                   data |-> Slice(archive, next - Field(archive, at + 18, 4),
                                  Field(archive, at + 18, 4))] >>
               \o Stored(archive, next) :
               next \in { at + 30 + Field(archive, at + 26, 2)
                          + Field(archive, at + 18, 4) } } : TRUE

\* The entry that a resource is expected to have.
EntryOf(resource) ==
    [name |-> utf8(characters("OEBPS/") \o resource.href), data |-> resource.data]

\* The names of the archive's entries from the first to the last-th.
StoredNames(last) ==
    [n \in 1 .. last |-> Stored(zip.archive, 0)[n].name]

\* The cover image, if there is one, and then the resources as listed.
Listed ==
    (IF zip.options.coverResource # NoResource
     THEN << zip.options.coverResource >> ELSE <<>>) \o zip.options.resources

\* The entries after the first fixed ones are those of the cover image and
\* of the resources, in order, with their raw bytes; and nothing follows.
C22_Resources(fixed) ==
    LET stored == Stored(zip.archive, 0)
    IN  /\ Len(stored) = fixed + Len(Listed)
        /\ \A i \in 1 .. Len(Listed) : stored[fixed + i] = EntryOf(Listed[i])

\* The order as the claim words it: the content document before the
\* cover-only document.
C22_ContentBeforeCover ==
    zip.status = "built" =>
        IF zip.options.coverResource # NoResource
        THEN /\ StoredNames(6) =
                   << utf8(characters("mimetype")),
                      utf8(characters("META-INF/container.xml")),
                      utf8(characters("OEBPS/content.opf")),
                      utf8(characters("OEBPS/nav.xhtml")),
                      utf8(characters("OEBPS/chapter.xhtml")),
                      utf8(characters("OEBPS/cover.xhtml")) >>
             /\ C22_Resources(6)
        ELSE /\ StoredNames(5) =
                   << utf8(characters("mimetype")),
                      utf8(characters("META-INF/container.xml")),
                      utf8(characters("OEBPS/content.opf")),
                      utf8(characters("OEBPS/nav.xhtml")),
                      utf8(characters("OEBPS/chapter.xhtml")) >>
             /\ C22_Resources(5)

\* C22 (amended): the archive's entries are, in this order, mimetype, the
\* container descriptor, the package document, the navigation document, the
\* cover-only document if there is a cover resource, the content document,
\* then the cover image if there is one and every resource as listed, each at
\* OEBPS/<href> with its raw bytes; without cover and resources the archive
\* holds the five skeleton entries and nothing else.
C22_EntryOrder ==
    zip.status = "built" =>
        IF zip.options.coverResource # NoResource
        THEN /\ StoredNames(6) =
                   << utf8(characters("mimetype")),
                      utf8(characters("META-INF/container.xml")),
                      utf8(characters("OEBPS/content.opf")),
                      utf8(characters("OEBPS/nav.xhtml")),
                      utf8(characters("OEBPS/cover.xhtml")),
                      utf8(characters("OEBPS/chapter.xhtml")) >>
             /\ C22_Resources(6)
        ELSE /\ StoredNames(5) =
                   << utf8(characters("mimetype")),
                      utf8(characters("META-INF/container.xml")),
                      utf8(characters("OEBPS/content.opf")),
                      utf8(characters("OEBPS/nav.xhtml")),
                      utf8(characters("OEBPS/chapter.xhtml")) >>
             /\ C22_Resources(5)

\* An archive with a cover and two different resources was built: the
\* cover-only document is its fifth entry and the last entry holds the
\* second resource's bytes.
C22_Witness ==
    /\ zip.status = "built"
    /\ zip.options.coverResource # NoResource
    /\ Len(zip.options.resources) = 2
    /\ zip.options.resources[1].href # zip.options.resources[2].href
    /\ Stored(zip.archive, 0)[5].name = utf8(characters("OEBPS/cover.xhtml"))
    /\ Stored(zip.archive, 0)[9].data = zip.options.resources[2].data

(* ------------------------------- C23 ----------------------------------- *)

\* The package document as it lies in the archive, its third entry.
PackageDocument == Stored(zip.archive, 0)[3].data

\* Where an href attribute starts in the package document: the offsets of
\* the bytes of [ href="]. (Only the items of the manifest have one.)
HrefAt ==
    {at \in 0 .. Len(PackageDocument) - 7 :
        Slice(PackageDocument, at, 7) = << 32, 104, 114, 101, 102, 61, 34 >>}

\* The value of the attribute that starts there, up to the closing quote.
Href(at) ==
    LET close == CHOOSE q \in at + 7 .. Len(PackageDocument) - 1 :
                     /\ PackageDocument[q + 1] = 34
                     /\ \A r \in at + 7 .. q - 1 : PackageDocument[r + 1] # 34
    IN  Slice(PackageDocument, at + 7, close - at - 7)

\* The bytes of a path as an attribute value holds them (the five
\* characters that XML escapes, as their entities).
RECURSIVE Escaped(_)
Escaped(bytes) ==
    IF bytes = <<>> THEN <<>>
    ELSE (CASE Head(bytes) = 38 -> << 38, 97, 109, 112, 59 >>
            [] Head(bytes) = 60 -> << 38, 108, 116, 59 >>
            [] Head(bytes) = 62 -> << 38, 103, 116, 59 >>
            [] Head(bytes) = 34 -> << 38, 113, 117, 111, 116, 59 >>
            [] Head(bytes) = 39 -> << 38, 35, 51, 57, 59 >>
            [] OTHER -> << Head(bytes) >>)
         \o Escaped(Tail(bytes))

\* The archive's entries at the path that an href of the manifest names.
EntriesAt(href) ==
    LET stored == Stored(zip.archive, 0)
    IN  {n \in 1 .. Len(stored) :
            /\ Len(stored[n].name) >= 6
            /\ Slice(stored[n].name, 0, 6) = << 79, 69, 66, 80, 83, 47 >>
            /\ Escaped(Slice(stored[n].name, 6, Len(stored[n].name) - 6)) = href}

\* C23: every item of the package manifest has exactly one archive entry at
\* OEBPS/<href>, every archive entry but mimetype, the container descriptor
\* and the package document is listed in the manifest exactly once, and the
\* manifest and the archive grow by one for each resource: the manifest has
\* the items of the navigation and content documents, of the cover document
\* and image if there is a cover, and one per resource, the archive three
\* entries more.
C23_NoOrphans ==
    zip.status = "built" =>
        LET stored == Stored(zip.archive, 0)
            cover == IF zip.options.coverResource # NoResource THEN 2 ELSE 0
        IN  /\ \A at \in HrefAt : Cardinality(EntriesAt(Href(at))) = 1
            /\ \A n \in 4 .. Len(stored) :
                   Cardinality({at \in HrefAt : n \in EntriesAt(Href(at))}) = 1
            /\ Cardinality(HrefAt) = 2 + cover + Len(zip.options.resources)
            /\ Len(stored) = 3 + Cardinality(HrefAt)

\* An archive was built from two resources that declare the same path: the
\* manifest lists the path twice and the archive has two entries at it.
C23_Witness ==
    /\ zip.status = "built"
    /\ Len(zip.options.resources) = 2
    /\ zip.options.resources[1] # zip.options.resources[2]
    /\ zip.options.resources[1].href = zip.options.resources[2].href
    /\ \E at \in HrefAt : Cardinality(EntriesAt(Href(at))) = 2

(* ------------------------------- C24 ----------------------------------- *)

\* The archive's entries whose name is OEBPS/ and the href of a resource.
EntriesOf(resource) ==
    {n \in 1 .. Len(Stored(zip.archive, 0)) :
        Stored(zip.archive, 0)[n].name = EntryOf(resource).name}

\* C24: when two resources of the list declare the same path, the archive
\* has one entry at that path and it holds the bytes of the later resource.
C24_LastWriteWins ==
    zip.status = "built" =>
        \A i, j \in 1 .. Len(zip.options.resources) :
            LET earlier == zip.options.resources[i]
                later == zip.options.resources[j]
            IN  (i < j /\ earlier.href = later.href) =>
                    /\ Cardinality(EntriesOf(later)) = 1
                    /\ \A n \in EntriesOf(later) :
                           Stored(zip.archive, 0)[n].data = later.data

\* An archive was built from two resources with the same path and different
\* bytes: it has two entries at that path, the first with the bytes of the
\* first resource and the second with those of the second.
C24_Witness ==
    /\ zip.status = "built"
    /\ zip.options.coverResource = NoResource
    /\ Len(zip.options.resources) = 2
    /\ zip.options.resources[1].href = zip.options.resources[2].href
    /\ zip.options.resources[1].data # zip.options.resources[2].data
    /\ EntriesOf(zip.options.resources[2]) = {6, 7}
    /\ Stored(zip.archive, 0)[6].data = zip.options.resources[1].data
    /\ Stored(zip.archive, 0)[7].data = zip.options.resources[2].data

(* ------------------------------- C25 ----------------------------------- *)

\* The reference CRC-32 of IEEE 802.3, bit by bit and without a table. The
\* 32-bit register is the set of the positions of its one bits (position 0
\* the least significant), so that exclusive or is the symmetric difference
\* and a shift to the right takes one from every position.
Polynomial == {5, 8, 9, 15, 19, 20, 21, 23, 24, 26, 27, 29, 30, 31}

SymmetricDifference(a, b) == (a \ b) \cup (b \ a)

\* The register after the given number of shifts, each followed by the
\* exclusive or with the polynomial when the bit shifted out was one.
RECURSIVE Shifted(_, _)
Shifted(register, shifts) ==
    IF shifts = 0 THEN register
    ELSE LET right == {k - 1 : k \in register \ {0}}
         IN  Shifted(IF 0 \in register
                     THEN SymmetricDifference(right, Polynomial) ELSE right,
                     shifts - 1)

\* The register after the bytes from..to of the buffer, each one put into
\* the low eight bits by exclusive or and followed by eight shifts. (The
\* range is halved, and the register after the first half computed once.)
RECURSIVE Register(_, _, _, _)
Register(buffer, from, to, register) ==
    IF from > to THEN register
    ELSE IF from = to
    THEN Shifted(SymmetricDifference(register,
                     {k \in 0 .. 7 : (buffer[from] \div (2 ^ k)) % 2 = 1}), 8)
    ELSE CHOOSE after \in
             UNION { { Register(buffer, middle + 1, to, first) :
                       first \in { Register(buffer, from, middle, register) } } :
                     middle \in { (from + to) \div 2 } } : TRUE

\* The reference value of a buffer: from a register of all ones, with all
\* bits inverted at the end, as four bytes, the least significant first.
Reference(buffer) ==
    LET inverted == (0 .. 31) \ Register(buffer, 1, Len(buffer), 0 .. 31)
        Byte(j) == LET Bit(k) == IF 8 * j + k \in inverted THEN 2 ^ k ELSE 0
                   IN  Bit(0) + Bit(1) + Bit(2) + Bit(3) + Bit(4) + Bit(5)
                       + Bit(6) + Bit(7)
    IN  << Byte(0), Byte(1), Byte(2), Byte(3) >>

\* C25: the CRC that buildZip has written for an entry (crc32 of its data,
\* at 14 in the local header) is the reference CRC-32 of the entry's data,
\* whatever was summed before it; it is 0 for empty data and 0xCBF43926 for
\* the bytes of 123456789.
C25_ReferenceCrc ==
    zip.status = "built" =>
        \A n \in 1 .. Len(zip.entries) :
            LET data == zip.entries[n].data
                crc == Slice(zip.archive, LocalStart(zip.entries, n) + 14, 4)
            IN  /\ crc = Reference(data)
                /\ data = <<>> => crc = << 0, 0, 0, 0 >>
                /\ data = << 49, 50, 51, 52, 53, 54, 55, 56, 57 >>
                       => crc = << 38, 57, 244, 203 >>

\* An archive was built whose last two entries both hold the bytes of
\* 123456789, after the documents and a cover image: both have the CRC
\* 0xCBF43926.
C25_Witness ==
    /\ zip.status = "built"
    /\ Len(zip.entries) = 9
    /\ zip.entries[8].data = << 49, 50, 51, 52, 53, 54, 55, 56, 57 >>
    /\ zip.entries[9].data = << 49, 50, 51, 52, 53, 54, 55, 56, 57 >>
    /\ Slice(zip.archive, LocalStart(zip.entries, 8) + 14, 4) = << 38, 57, 244, 203 >>
    /\ Slice(zip.archive, LocalStart(zip.entries, 9) + 14, 4) = << 38, 57, 244, 203 >>

(* ------------------------------- C26 ----------------------------------- *)

\* testEmailPreferences ran its whole session and resolved: every method of
\* its try block was awaited in order, the last of them verifyRecipient, none
\* failed, and quit() followed.
VerificationSucceeded ==
    /\ driver.status = "resolved"
    /\ driver.fn = "testEmailPreferences"
    /\ driver.preferences = form.values
    /\ driver.invoked = driver.plan \o << "quit" >>
    /\ driver.plan[Len(driver.plan)] = "verifyRecipient"
    /\ driver.error = NoError

\* In email mode what is stored differs from what was stored before only
\* after a successful verification; after a failed one it is what it was and
\* the completion callback was not invoked.
C26_Stored ==
    (form.status # "shown" /\ form.values.sendMethod = "email") =>
        /\ form.stored # form.saved => VerificationSucceeded
        /\ form.completed => form.stored = form.values
        /\ form.status = "storing" => VerificationSucceeded
        /\ driver.status = "rejected" =>
               /\ form.stored = form.saved
               /\ ~form.completed
               /\ form.status \in {"testing", "failed"}

\* The settings are written by the step that follows the test, and no
\* other; the completion callback is invoked by that step with the write.
C26_Step ==
    /\ form'.stored # form.stored =>
           /\ form.status = "storing"
           /\ form'.stored = form.values
           /\ form.values.sendMethod = "email" => VerificationSucceeded
    /\ (form'.completed /\ ~form.completed) => form'.stored = form.values

\* C26: in email mode onSubmit stores the settings only after
\* testEmailPreferences has run its whole session and resolved; when it
\* rejects, at whatever step, nothing is written, what was stored stays and
\* the completion callback is not invoked.
C26_ValidatedBeforeSaving == [](C26_Stored) /\ [][C26_Step]_vars

\* The test failed at its last method, after connect, EHLO and AUTH LOGIN
\* went through, and onSubmit ended in its catch block: the app-mode
\* settings stored before are still what is stored.
C26_Witness ==
    /\ form.status = "failed"
    /\ form.values.sendMethod = "email"
    /\ driver.status = "rejected"
    /\ driver.invoked = << "connect", "sendEhlo", "authLogin", "verifyRecipient", "quit" >>
    /\ form.saved = [sendMethod |-> "app"]
    /\ form.stored = form.saved
    /\ ~form.completed

(* ------------------------------- C27 ----------------------------------- *)

\* The step that wraps the transport leaves nothing behind that was received
\* before it: no queued response, no lines of a response under way, no
\* partial line in the buffer.
C27_Upgrade ==
    (client.socket.layer = "plain" /\ client'.socket.layer = "tls")
        => /\ client'.queuedResponses = <<>>
           /\ client'.currentResponseLines = <<>>
           /\ client'.buffer = <<>>

\* The EHLO that the driver sends right after startTls() returned (no data
\* callback runs in between) is not answered in the very step that writes
\* it, from what the queue held.
C27_Delivery ==
    (callers[1].method = "startTls" /\ callers[1].status = "done"
        /\ callers'[1].method = "sendEhlo")
        => /\ callers'[1].got = <<>>
           /\ callers'[1].settled = "none"

\* C27: nothing received before the TLS upgrade survives it, and no response
\* received in plaintext is delivered as the response to a command written
\* after the upgrade.
C27_NothingSurvives == [][C27_Upgrade /\ C27_Delivery]_vars

\* The EHLO written on the encrypted transport has been answered with a 250
\* that the server had sent unasked before the upgrade, while the server has
\* not answered that EHLO yet.
C27_Witness ==
    /\ driver # NoDriver
    /\ driver.invoked = << "connect", "sendEhlo", "startTls", "sendEhlo" >>
    /\ callers[1].method = "sendEhlo"
    /\ callers[1].wrote # <<>>
    /\ callers[1].wrote[1].layer = "tls"
    /\ callers[1].got = << 250 >>
    /\ callers[1].answers = << Unsolicited >>
    /\ written # <<>>
    /\ Head(written).tag = callers[1].awaits

(* ------------------------------- C28 ----------------------------------- *)

\* The lines that carry the login, the envelope and the message.
Confidential == {"AUTH LOGIN", "USERNAME", "PASSWORD", "MAIL FROM", "RCPT TO",
                 "DATA", "BODY", "."}

Upgraded == << "connect", "sendEhlo", "startTls", "sendEhlo" >>

\* In starttls mode, in every state: every confidential line was written on
\* the encrypted transport; authLogin, sendMail and verifyRecipient are
\* invoked only after connect, sendEhlo, startTls and sendEhlo; the transport
\* is encrypted only once startTls was invoked; in the finally block only
\* quit runs, and quit writes QUIT and nothing else.
C28_Encrypted ==
    (driver # NoDriver /\ driver.clients = 1
        /\ driver.settings.smtpSecurity = "starttls")
        => /\ \A c \in CallerIds : \A i \in 1 .. Len(callers[c].wrote) :
                  callers[c].wrote[i].data \in Confidential
                      => callers[c].wrote[i].layer = "tls"
           /\ \A k \in 1 .. Len(driver.invoked) :
                  driver.invoked[k] \in {"authLogin", "sendMail", "verifyRecipient"}
                      => /\ k > Len(Upgraded)
                         /\ SubSeq(driver.invoked, 1, Len(Upgraded)) = Upgraded
           /\ client.socket.layer = "tls"
                  => /\ Len(driver.invoked) >= 3
                     /\ driver.invoked[3] = "startTls"
           /\ driver.finally
                  => /\ callers[1].method \in {"quit", ""}
                     /\ Datas(callers[1].wrote) \in {<<>>, << "QUIT" >>}

\* In starttls mode, in every step: a method that writes confidential lines
\* is invoked on the encrypted transport only; a startTls that failed
\* (STARTTLS refused, timed out, transport error) is followed by quit.
C28_Step ==
    (driver # NoDriver /\ driver.clients = 1
        /\ driver.settings.smtpSecurity = "starttls")
        => /\ (callers'[1].call # callers[1].call
                  /\ callers'[1].method \in {"authLogin", "sendMail",
                                              "verifyRecipient"})
                  => /\ client.socket.layer = "tls"
                     /\ driver.failures = <<>>
           /\ (callers[1].method = "startTls" /\ callers[1].status = "failed"
                  /\ callers'[1] # callers[1])
                  => /\ callers'[1].method = "quit"
                     /\ driver'.finally
                     /\ client'.socket.layer # "tls"

\* C28: in starttls mode no AUTH LOGIN, credential, MAIL FROM, RCPT TO or
\* DATA line is written on the plaintext transport; they are written only
\* after startTls received its 220 and wrapped the transport, and after a
\* STARTTLS that was refused or timed out only QUIT is sent.
C28_NoPlaintextCredentials == [](C28_Encrypted) /\ [][C28_Step]_vars

\* In starttls mode the password has been written, on the encrypted
\* transport.
C28_Witness ==
    /\ driver # NoDriver
    /\ driver.clients = 1
    /\ driver.settings.smtpSecurity = "starttls"
    /\ callers[1].method = "authLogin"
    /\ Len(callers[1].wrote) = 3
    /\ callers[1].wrote[3].data = "PASSWORD"
    /\ callers[1].wrote[3].layer = "tls"

(* ------------------------------- C29 ----------------------------------- *)

\* A line break only at the end.
OneLine(line) ==
    /\ Len(line) >= 2
    /\ SubSeq(line, Len(line) - 1, Len(line)) = CRLF
    /\ \A k \in 1 .. Len(line) - 2 : line[k] \notin {"\r", "\n"}

\* The lines caller c has written with sendCommand, on a machine of that
\* name.
CommandLines(c, hostname) ==
    {commandLine(callers[c].wrote[i].data, driver.settings, hostname) :
        i \in {i \in 1 .. Len(callers[c].wrote) :
                    callers[c].wrote[i].data # "BODY"}}

\* C29: every command the client writes is one line: whatever the settings
\* normalizePreferences accepted and whatever the name of the machine, a
\* write of sendCommand holds no CR or LF but its final CRLF.
C29_OneLinePerCommand ==
    (driver # NoDriver /\ driver.clients = 1)
        => \A c \in CallerIds : \A hostname \in Hostnames :
               \A line \in CommandLines(c, hostname) : OneLine(line)

\* The sender address with a line break inside was accepted and MAIL FROM
\* has been written with it: one write, two lines, the second a RCPT TO the
\* settings never asked for.
C29_Witness ==
    /\ driver # NoDriver
    /\ driver.clients = 1
    /\ driver.missing = <<>>
    /\ \E i \in 1 .. Len(callers[1].wrote) :
           /\ callers[1].wrote[i].data = "MAIL FROM"
           /\ commandLine("MAIL FROM", driver.settings, <<>>)
                  = characters("MAIL FROM:<s>\r\nRCPT TO:<x>\r\n")

(* ------------------------------- C30 ----------------------------------- *)

\* The registration caller c waits on: the invocation and its step.
Registration(c) == << callers[c].call, callers[c].pc >>

\* In every state the armed timers are the timer of the registration in the
\* slot and no other, and that registration is the one its owner, not yet
\* settled, waits on.
C30_Timers ==
    /\ timers = IF client.pending = NoPending THEN {}
                ELSE {client.pending.timeout}
    /\ client.pending # NoPending
          => /\ Awaiting(client.pending.owner)
             /\ client.pending.timeout.id = Registration(client.pending.owner)

\* Caller c waits on the same registration before and after the step.
C30_Same(c) ==
    /\ callers[c].status = "awaiting"
    /\ callers'[c].status = "awaiting"
    /\ << callers'[c].call, callers'[c].pc >> = Registration(c)

\* In every step: a settled registration is not settled again; a callback
\* settles the registration of the slot and no other, takes it out of the
\* slot and leaves its timer disarmed; a timeout error comes from the
\* registration's own timer.
C30_Step ==
    \A c \in CallerIds :
        C30_Same(c) =>
            /\ callers[c].settled # "none"
                  => /\ callers'[c].settled = callers[c].settled
                     /\ callers'[c].response = callers[c].response
                     /\ callers'[c].error = callers[c].error
            /\ (callers[c].settled = "none" /\ callers'[c].settled # "none")
                  => /\ client.pending # NoPending
                     /\ client.pending.owner = c
                     /\ client'.pending = NoPending
                     /\ client.pending.timeout \notin timers'
                     /\ timers' = {}
                     /\ \A d \in CallerIds \ {c} :
                            callers'[d].settled = callers[d].settled
                     /\ callers'[c].error = TimedOut
                            => /\ client.pending.timeout.id = Registration(c)
                               /\ timers = {client.pending.timeout}

\* C30: under every interleaving of the data, error and timer callbacks a
\* registration is settled once, resolved or rejected; settling it by a
\* response or a transport error cancels its timer, so that the only timer
\* armed is the one of the registration in the slot and a timer never
\* rejects the registration of a later command.
C30_SettledOnce == [](C30_Timers) /\ [][C30_Step]_vars

\* A later registration waits with its own timer, the only one armed, after
\* the registration before it was resolved by a response.
C30_Witness ==
    \E c \in CallerIds :
        /\ callers[c].method = "authLogin"
        /\ callers[c].pc = 2
        /\ callers[c].got = << 334 >>
        /\ client.pending.owner = c
        /\ timers = {[id |-> << callers[c].call, 2 >>, delay |-> DefaultTimeoutMs]}

====
